---------------------------- MODULE Spec2Model ----------------------------
(***************************************************************************)
(* Element to Markdown Copier (src/content.js): the Markdown table         *)
(* normalizer, the link extractor, the area-selection geometry resolver,   *)
(* the selection controller, the image copies, the converter adapter, the  *)
(* preview panel and the capture loop; and the listeners of the background *)
(* script (src/unnamed/part_000, src/unnamed/part_001) for messages and    *)
(* for clicks on the extension's icon.                                     *)
(*                                                                         *)
(* Text is a sequence of one-character strings, so that splitting,         *)
(* trimming and matching are computed character by character as the        *)
(* JavaScript does.                                                        *)
(***************************************************************************)
EXTENDS Integers, Sequences, FiniteSets, TLC

VARIABLES
    text,        \* normalizeMarkdownTables: the input string
    once,        \* normalizeMarkdownTables(text)
    twice,       \* normalizeMarkdownTables(normalizeMarkdownTables(text))
    normPc,      \* "in" | "once" | "twice"
    markdown,    \* extractLinksFromMarkdown: the input string
    links,       \* extractLinksFromMarkdown(markdown)
    linkPc,      \* "in" | "done"
    dom,         \* getElementsInArea: the elements under body, in document order
    start,       \* getElementsInArea: the point where the drag began
    end,         \* getElementsInArea: the point where the drag ended
    resolved,    \* getElementsInArea(start, end)
    areaPc,      \* "in" | "done"
    imageIn,     \* an image copy: the elements' rectangles and what the browser answers
    imageOut,    \* an image copy: what was written and the toasts shown
    imagePc,     \* "in" | "done"
    convIn,      \* convertToMarkdown: the element
    convOut,     \* convertToMarkdown(convIn)
    convPc,      \* "in" | "done"
    renderIn,    \* markdownToHtml: the Markdown and whether marked is there
    renderOut,   \* markdownToHtml(renderIn)
    renderPc,    \* "in" | "done"
    \* the preview panel (previewPanel and previewMarkdown are the controller's)
    activeTab,        \* previewState.activeTab
    textareaValue,    \* the value of .mdcp-preview-textarea
    renderPane,       \* the innerHTML of the pane render
    linksContainer,   \* the content of .mdcp-preview-links
    activeTabButton,  \* the tab button with the class active
    visiblePane,      \* the pane without mdcp-preview-pane-hidden
    \* the place and the size of the preview panel
    innerSize,            \* <<window.innerWidth, window.innerHeight>>
    panelRect,            \* the panel's <<left, top, width, height>>
    isPreviewDragging,
    previewDragOffset,
    isPreviewResizing,
    previewResizeStart,
    grabs,                \* how often the header or a handle was pressed
    \* the background script
    requests,             \* the messages the onMessage listener was called with
    \* one call of captureArea, step by step
    capture,              \* the area, the loop variables and what was requested so far
    \* the background script's listener for clicks on the extension's icon
    script,               \* which copy of the background script runs
    clicks,               \* the calls of the listener: the tab, the position, what was injected
    \* how many selection sessions the user starts
    sessionLimit,
    \* the selection controller (the module state of src/content.js)
    isSelectionMode,
    currentElement,              \* the hovered element, 0 for null
    selectedElements,            \* in insertion order
    overlay,                     \* TRUE while the overlay node exists
    selectionBox,                \* TRUE while the selection box node exists
    copyAsImage,
    isAreaSelectionMode,
    isDrawingArea,
    areaStartPos,
    areaEndPos,
    justFinishedAreaSelection,
    isDragging,                  \* the entry button is being dragged
    wasDragged,
    listening,                   \* the document listeners of activateSelectionMode are installed
    outlined,                    \* the elements carrying mdcp-selected-element-outline
    multiSelected,               \* the elements carrying mdcp-multi-selected
    previewPanel,                \* TRUE while the preview panel exists
    previewMarkdown,             \* previewState.markdown
    \* the page and the user
    pointerAt,                   \* the element under the pointer
    pressed,                     \* the primary mouse button is down
    altKey,                      \* the Alt key is down
    resetTimers,                 \* pending setTimeout callbacks of handleMouseUp
    pending,                     \* the clipboard writes and captures not yet settled
    sessions,                    \* how often selection mode was entered
    toast                        \* the toast the last step showed, NoToast when none

normVars == <<text, once, twice, normPc>>

linkVars == <<markdown, links, linkPc>>

areaVars == <<dom, start, end, resolved, areaPc>>

imageVars == <<imageIn, imageOut, imagePc>>

convVars == <<convIn, convOut, convPc>>

renderVars == <<renderIn, renderOut, renderPc>>

panelVars ==
    <<activeTab, textareaValue, renderPane, linksContainer, activeTabButton, visiblePane>>

bgVars == <<requests>>

capVars == <<capture>>

injectVars == <<script, clicks>>

limitVars == <<sessionLimit>>

geomVars ==
    <<innerSize, panelRect, isPreviewDragging, previewDragOffset, isPreviewResizing,
      previewResizeStart, grabs>>

\* the variables of the specifications of the preview and the captures
sideVars == <<renderVars, panelVars, geomVars, bgVars, capVars, injectVars, limitVars>>

\* every variable outside renderVars and the controller's
exceptRender ==
    <<normVars, linkVars, areaVars, imageVars, convVars, panelVars, geomVars, bgVars, capVars, injectVars, limitVars>>

\* every variable outside panelVars and the controller's
exceptPanel ==
    <<normVars, linkVars, areaVars, imageVars, convVars, renderVars, geomVars, bgVars, capVars, injectVars, limitVars>>

\* every variable outside geomVars and the controller's
exceptGeom ==
    <<normVars, linkVars, areaVars, imageVars, convVars, renderVars, panelVars, bgVars, capVars, injectVars, limitVars>>

\* every variable outside bgVars and the controller's
exceptBg ==
    <<normVars, linkVars, areaVars, imageVars, convVars, renderVars, panelVars, geomVars, capVars, injectVars, limitVars>>

\* every variable outside capVars and the controller's
exceptCap ==
    <<normVars, linkVars, areaVars, imageVars, convVars, renderVars, panelVars, geomVars, bgVars, injectVars, limitVars>>

\* every variable outside injectVars and the controller's
exceptInject ==
    <<normVars, linkVars, areaVars, imageVars, convVars, renderVars, panelVars, geomVars, bgVars, capVars, limitVars>>

\* every variable outside limitVars and the controller's
exceptLimit ==
    <<normVars, linkVars, areaVars, imageVars, convVars, renderVars, panelVars, geomVars, bgVars, capVars, injectVars>>

ctlVars ==
    <<isSelectionMode, currentElement, selectedElements, overlay, selectionBox,
      copyAsImage, isAreaSelectionMode, isDrawingArea, areaStartPos, areaEndPos,
      justFinishedAreaSelection, isDragging, wasDragged, listening, outlined,
      multiSelected, previewPanel, previewMarkdown, pointerAt, pressed, altKey,
      resetTimers, pending, sessions, toast>>

vars == <<normVars, linkVars, areaVars, imageVars, convVars, sideVars, ctlVars>>

(***************************************************************************)
(* Strings.                                                                *)
(***************************************************************************)
NL == "\n"

Pipe == "|"

\* the backtick character (SANY reads no backtick inside a string literal)
Backtick == "BQ"

Fence == <<Backtick, Backtick, Backtick>>

\* String.prototype.trim's white space, as far as the alphabet goes.
IsSpace(c) == c \in {" ", "\t", "\n", "\r"}

RECURSIVE TrimLeft(_)
TrimLeft(s) ==
    IF s # <<>> /\ IsSpace(Head(s)) THEN TrimLeft(Tail(s)) ELSE s

RECURSIVE TrimRight(_)
TrimRight(s) ==
    IF s # <<>> /\ IsSpace(s[Len(s)]) THEN TrimRight(SubSeq(s, 1, Len(s) - 1)) ELSE s

Trim(s) == TrimRight(TrimLeft(s))

Includes(s, c) == \E i \in 1..Len(s) : s[i] = c

StartsWithAt(s, i, p) ==
    /\ i + Len(p) - 1 <= Len(s)
    /\ \A k \in 1..Len(p) : s[i + k - 1] = p[k]

EndsWith(s, c) == s # <<>> /\ s[Len(s)] = c

\* String.prototype.split(sep): leftmost, non-overlapping occurrences of sep.
RECURSIVE SplitFrom(_, _, _, _)
SplitFrom(s, sep, i, cur) ==
    IF i > Len(s) THEN <<cur>>
    ELSE IF StartsWithAt(s, i, sep)
         THEN <<cur>> \o SplitFrom(s, sep, i + Len(sep), <<>>)
         ELSE SplitFrom(s, sep, i + 1, Append(cur, s[i]))

Split(s, sep) == SplitFrom(s, sep, 1, <<>>)

\* Array.prototype.join(sep)
RECURSIVE Join(_, _)
Join(parts, sep) ==
    IF parts = <<>> THEN <<>>
    ELSE IF Len(parts) = 1 THEN parts[1]
         ELSE parts[1] \o sep \o Join(Tail(parts), sep)

RECURSIVE Concat(_)
Concat(parts) == IF parts = <<>> THEN <<>> ELSE Head(parts) \o Concat(Tail(parts))

(***************************************************************************)
(* normalizeMarkdownTables (src/content.js 266-374).                       *)
(***************************************************************************)
\* /^\s*:?-{3,}:?\s*$/.test(part)
RECURSIVE DashRun(_)
DashRun(s) == IF s # <<>> /\ Head(s) = "-" THEN 1 + DashRun(Tail(s)) ELSE 0

SeparatorPart(part) ==
    LET t == Trim(part)
        a == IF t # <<>> /\ Head(t) = ":" THEN Tail(t) ELSE t
        n == DashRun(a)
        r == SubSeq(a, n + 1, Len(a))
    IN  /\ n >= 3
        /\ r = <<>> \/ r = <<":">>

looksLikeSeparator(value) ==
    /\ Includes(value, Pipe)
    /\ LET t == Trim(value)
           a == IF t # <<>> /\ Head(t) = Pipe THEN Tail(t) ELSE t
           b == IF a # <<>> /\ a[Len(a)] = Pipe THEN SubSeq(a, 1, Len(a) - 1) ELSE a
           parts == Split(b, <<Pipe>>)
       IN  /\ Len(parts) >= 2
           /\ \A k \in 1..Len(parts) : SeparatorPart(parts[k])

\* the index of the next line after i that is not blank, or Len(lines) + 1
RECURSIVE nextNonEmptyIndex(_, _)
nextNonEmptyIndex(lines, j) ==
    IF j <= Len(lines) /\ Trim(lines[j]) = <<>>
    THEN nextNonEmptyIndex(lines, j + 1)
    ELSE j

isTableStart(lines, i) ==
    LET j == nextNonEmptyIndex(lines, i + 1)
    IN  /\ Includes(Trim(lines[i]), Pipe)
        /\ j <= Len(lines)
        /\ looksLikeSeparator(lines[j])

\* the inner while loop: the lines of the table that starts at i, and the index
\* of the first line after it
RECURSIVE CollectTable(_, _, _)
CollectTable(lines, i, tableLines) ==
    IF i > Len(lines) THEN [next |-> i, tableLines |-> tableLines]
    ELSE LET current == lines[i]
         IN  IF Trim(current) = <<>>
             THEN CollectTable(lines, i + 1, Append(tableLines, current))
             ELSE IF /\ ~Includes(current, Pipe)
                     /\ ~looksLikeSeparator(current)
                     /\ \E k \in 1..Len(tableLines) : looksLikeSeparator(tableLines[k])
                  THEN [next |-> i, tableLines |-> tableLines]
                  ELSE CollectTable(lines, i + 1, Append(tableLines, current))

\* pushRow: the rows and the row buffer after it
pushRow(rows, rowBuffer) ==
    IF Trim(rowBuffer) # <<>>
    THEN [rows |-> Append(rows, Trim(rowBuffer)), rowBuffer |-> <<>>]
    ELSE [rows |-> rows, rowBuffer |-> rowBuffer]

\* the for loop over tableLines, and the final pushRow
RECURSIVE MergeRows(_, _, _, _)
MergeRows(tableLines, t, rows, rowBuffer) ==
    IF t > Len(tableLines) THEN pushRow(rows, rowBuffer).rows
    ELSE LET raw == tableLines[t]
             tline == Trim(raw)
             pushed == pushRow(rows, rowBuffer)
         IN  IF tline = <<>>
             THEN MergeRows(tableLines, t + 1, rows,
                            IF rowBuffer # <<>> THEN Append(rowBuffer, " ") ELSE rowBuffer)
             ELSE IF looksLikeSeparator(raw)
             THEN MergeRows(tableLines, t + 1, Append(pushed.rows, tline), pushed.rowBuffer)
             ELSE IF rowBuffer = <<>>
             THEN MergeRows(tableLines, t + 1, rows, raw)
             ELSE IF /\ Includes(raw, Pipe)
                     /\ Includes(rowBuffer, Pipe)
                     /\ EndsWith(Trim(rowBuffer), Pipe)
             THEN MergeRows(tableLines, t + 1, pushed.rows, raw)
             ELSE MergeRows(tableLines, t + 1, rows, rowBuffer \o <<" ">> \o tline)

\* the outer while loop over the lines of a segment outside code fences
RECURSIVE ScanLines(_, _, _)
ScanLines(lines, i, out) ==
    IF i > Len(lines) THEN out
    ELSE IF ~isTableStart(lines, i)
         THEN ScanLines(lines, i + 1, Append(out, lines[i]))
         ELSE LET c == CollectTable(lines, i, <<>>)
              IN  ScanLines(lines, c.next, out \o MergeRows(c.tableLines, 1, <<>>, <<>>))

normalizeSegment(segment) == Join(ScanLines(Split(segment, <<NL>>), 1, <<>>), <<NL>>)

\* keepsSegment with the test on the index dropped: every segment is normalized
keepsSegment_none(k) == FALSE

\* segments.map((segment, index) => ...): JavaScript's index is k - 1
keepsSegment(k) == (k - 1) % 2 = 1

normalizedSegments(segments) ==
    [k \in 1..Len(segments) |->
        IF keepsSegment(k) THEN segments[k] ELSE normalizeSegment(segments[k])]

normalizeMarkdownTables(s) == Join(normalizedSegments(Split(s, Fence)), Fence)

(***************************************************************************)
(* extractLinksFromMarkdown (src/content.js 422-440).                      *)
(***************************************************************************)
\* \w of a JavaScript regular expression without the u flag
WordChars ==
    { "a", "b", "c", "d", "e", "f", "g", "h", "i", "j", "k", "l", "m",
      "n", "o", "p", "q", "r", "s", "t", "u", "v", "w", "x", "y", "z",
      "0", "1", "2", "3", "4", "5", "6", "7", "8", "9", "_" }

SpaceChars == {" ", "\t", "\n", "\r"}

IsWordAt(s, q) == q >= 1 /\ q <= Len(s) /\ s[q] \in WordChars

\* \b between s[q - 1] and s[q]
WordBoundary(s, q) == IsWordAt(s, q - 1) # IsWordAt(s, q)

\* the length of the longest run from index i of characters outside stop
RECURSIVE RunLen(_, _, _)
RunLen(s, i, stop) ==
    IF i <= Len(s) /\ s[i] \notin stop THEN 1 + RunLen(s, i + 1, stop) ELSE 0

\* the length of the longest run from index i of characters inside set
RECURSIVE RunIn(_, _, _)
RunIn(s, i, set) ==
    IF i <= Len(s) /\ s[i] \in set THEN 1 + RunIn(s, i + 1, set) ELSE 0

\* https?:\/\/ at index i: the length matched, or 0
HttpPrefixLen(s, i) ==
    IF StartsWithAt(s, i, <<"h", "t", "t", "p", ":", "/", "/">>) THEN 7
    ELSE IF StartsWithAt(s, i, <<"h", "t", "t", "p", "s", ":", "/", "/">>) THEN 8
    ELSE 0

NoMatch == [ok |-> FALSE, url |-> <<>>, next |-> 0]

\* /\[([^\]]+)\]\((https?:\/\/[^\s)]+)\)/ tried at index i: group 2
linkRegexAt(s, i) ==
    LET n1 == RunLen(s, i + 1, {"]"})
        j  == i + 1 + n1                       \* the "]"
        h  == HttpPrefixLen(s, j + 2)
        n2 == RunLen(s, j + 2 + h, SpaceChars \cup {")"})
        e  == j + 2 + h + n2                   \* the ")"
    IN  IF /\ i <= Len(s) /\ s[i] = "["
           /\ n1 >= 1
           /\ j + 1 <= Len(s) /\ s[j] = "]" /\ s[j + 1] = "("
           /\ h > 0
           /\ n2 >= 1
           /\ e <= Len(s) /\ s[e] = ")"
        THEN [ok |-> TRUE, url |-> SubSeq(s, j + 2, e - 1), next |-> e + 1]
        ELSE NoMatch

\* /<\s*(https?:\/\/[^>]+)\s*>/ tried at index i: group 1
autoLinkRegexAt(s, i) ==
    LET w == RunIn(s, i + 1, SpaceChars)
        u == i + 1 + w
        h == HttpPrefixLen(s, u)
        n == RunLen(s, u + h, {">"})
        e == u + h + n                         \* the ">"
    IN  IF /\ i <= Len(s) /\ s[i] = "<"
           /\ h > 0
           /\ n >= 1
           /\ e <= Len(s)
        THEN [ok |-> TRUE, url |-> SubSeq(s, u, e - 1), next |-> e + 1]
        ELSE NoMatch

\* /(https?:\/\/[^\s)]+)\b/ tried at index i: the greedy run gives back characters
\* until a word boundary follows it
bareUrlRegexAt(s, i) ==
    LET h  == HttpPrefixLen(s, i)
        n  == RunLen(s, i + h, SpaceChars \cup {")"})
        ms == { m \in 1..n : WordBoundary(s, i + h + m) }
    IN  IF h > 0 /\ ms # {}
        THEN LET m == CHOOSE x \in ms : \A y \in ms : y <= x
             IN  [ok |-> TRUE, url |-> SubSeq(s, i, i + h + m - 1), next |-> i + h + m]
        ELSE NoMatch

\* while ((match = regex.exec(markdown)) !== null) for the three expressions
RECURSIVE execLink(_, _)
execLink(s, i) ==
    IF i > Len(s) THEN <<>>
    ELSE LET m == linkRegexAt(s, i)
         IN  IF m.ok THEN <<m.url>> \o execLink(s, m.next) ELSE execLink(s, i + 1)

RECURSIVE execAutoLink(_, _)
execAutoLink(s, i) ==
    IF i > Len(s) THEN <<>>
    ELSE LET m == autoLinkRegexAt(s, i)
         IN  IF m.ok THEN <<m.url>> \o execAutoLink(s, m.next) ELSE execAutoLink(s, i + 1)

RECURSIVE execBareUrl(_, _)
execBareUrl(s, i) ==
    IF i > Len(s) THEN <<>>
    ELSE LET m == bareUrlRegexAt(s, i)
         IN  IF m.ok THEN <<m.url>> \o execBareUrl(s, m.next) ELSE execBareUrl(s, i + 1)

\* new Set() filled by add, read by Array.from: insertion order, no duplicates
RECURSIVE SetOrder(_, _)
SetOrder(added, acc) ==
    IF added = <<>> THEN acc
    ELSE SetOrder(Tail(added),
                  IF \E k \in 1..Len(acc) : acc[k] = Head(added)
                  THEN acc ELSE Append(acc, Head(added)))

\* the three loops in the order bare URLs, autolinks, links
extractLinksFromMarkdown_bareFirst(s) ==
    SetOrder(execBareUrl(s, 1) \o execAutoLink(s, 1) \o execLink(s, 1), <<>>)

extractLinksFromMarkdown(s) ==
    SetOrder(execLink(s, 1) \o execAutoLink(s, 1) \o execBareUrl(s, 1), <<>>)

(***************************************************************************)
(* markdownToHtml (src/content.js 201-258, 376-417).                       *)
(*                                                                         *)
(* A text is a sequence of characters in which an HTML tag is one symbol.  *)
(***************************************************************************)
\* /&/g, /</g, />/g, /"/g, /'/g replaced one after the other
escapeHtml(s) ==
    [k \in 1..Len(s) |->
        CASE s[k] = "&" -> "&amp;"
          [] s[k] = "<" -> "&lt;"
          [] s[k] = ">" -> "&gt;"
          [] s[k] = "\"" -> "&quot;"
          [] s[k] = "'" -> "&#39;"
          [] OTHER -> s[k]]

\* allowedTags, as far as the tags of the inputs go
AllowedTagSymbols ==
    { "<table>", "</table>", "<tbody>", "</tbody>", "<tr>", "</tr>", "<td>", "</td>" }

\* the tags walk unwraps
UnwrappedTagSymbols == { "<b>", "</b>", "<tablet>" }

\* DOMParser puts the rows of a table without tbody into one
RECURSIVE parseTable(_)
parseTable(s) ==
    IF s = <<>> THEN <<>>
    ELSE IF Len(s) >= 2 /\ s[1] = "<table>" /\ s[2] = "<tr>"
         THEN <<"<table>", "<tbody>">> \o parseTable(Tail(s))
    ELSE IF Len(s) >= 2 /\ s[1] = "</tr>" /\ s[2] = "</table>"
         THEN <<"</tr>", "</tbody>">> \o parseTable(Tail(s))
    ELSE <<Head(s)>> \o parseTable(Tail(s))

\* walk: a tag that is not allowed goes and its content stays, an attribute
\* that is not allowed goes
RECURSIVE walk(_)
walk(s) ==
    IF s = <<>> THEN <<>>
    ELSE IF Head(s) \in UnwrappedTagSymbols THEN walk(Tail(s))
    ELSE IF Head(s) = "<td id>" THEN <<"<td>">> \o walk(Tail(s))
    ELSE <<Head(s)>> \o walk(Tail(s))

\* the outerHTML of the first table element of the parsed text, sanitized; the
\* empty string when there is none
sanitizeTableHtml(tableHtml) ==
    IF ~Includes(tableHtml, "<table>") THEN <<>>
    ELSE LET first == CHOOSE k \in 1..Len(tableHtml) :
                         /\ tableHtml[k] = "<table>"
                         /\ \A j \in 1..(k - 1) : tableHtml[j] # "<table>"
         IN  walk(parseTable(SubSeq(tableHtml, first, Len(tableHtml))))

\* the decimal digits of n
RECURSIVE Digits(_)
Digits(n) ==
    IF n < 10 THEN <<ToString(n)>> ELSE Digits(n \div 10) \o <<ToString(n % 10)>>

\* `[[MDCP_TABLE_${index}]]`
tableToken(index) ==
    <<"[", "[", "M", "D", "C", "P", "_", "T", "A", "B", "L", "E", "_">>
        \o Digits(index) \o <<"]", "]">>

\* the symbols /<table/i matches at
TableOpenSymbols == { "<table>", "<tablet>" }

\* markdown.replace(/<table[\s\S]*?<\/table>/gi, ...): every match, from the
\* left, gives way to the next token, and its sanitized HTML is pushed
RECURSIVE replaceTables(_, _, _, _)
replaceTables(s, i, out, tableTokens) ==
    IF i > Len(s) THEN [text |-> out, tableTokens |-> tableTokens]
    ELSE IF s[i] \in TableOpenSymbols /\ \E j \in (i + 1)..Len(s) : s[j] = "</table>"
         THEN LET j == CHOOSE j \in (i + 1)..Len(s) :
                          /\ s[j] = "</table>"
                          /\ \A q \in (i + 1)..(j - 1) : s[q] # "</table>"
              IN  replaceTables(s, j + 1, out \o tableToken(Len(tableTokens)),
                                Append(tableTokens, sanitizeTableHtml(SubSeq(s, i, j))))
         ELSE replaceTables(s, i + 1, Append(out, s[i]), tableTokens)

\* String.prototype.replaceAll(pattern, replacement) from index i on
RECURSIVE replaceAll(_, _, _, _)
replaceAll(s, i, pattern, replacement) ==
    IF i > Len(s) THEN <<>>
    ELSE IF StartsWithAt(s, i, pattern)
         THEN replacement \o replaceAll(s, i + Len(pattern), pattern, replacement)
         ELSE <<s[i]>> \o replaceAll(s, i + 1, pattern, replacement)

\* markdown.replace(/^\s{1,3}(#{1,6}\s+)/gm, '$1'): at the start of a line, one
\* to three white space characters before a heading marker go
RECURSIVE normalizeMarkdownForRendering(_, _)
normalizeMarkdownForRendering(s, i) ==
    IF i > Len(s) THEN <<>>
    ELSE LET w == RunIn(s, i, SpaceChars)
             r == RunIn(s, i + w, {"#"})
             v == RunIn(s, i + w + r, SpaceChars)
         IN  IF /\ (i = 1 \/ s[i - 1] \in {"\n", "\r"})
                /\ w \in 1..3
                /\ r \in 1..6
                /\ v >= 1
             THEN SubSeq(s, i + w, i + w + r + v - 1)
                      \o normalizeMarkdownForRendering(s, i + w + r + v)
             ELSE <<s[i]>> \o normalizeMarkdownForRendering(s, i + 1)

\* marked.parse of lib/marked.min.js, for texts without markup other than a
\* heading marker at the start: a heading or a paragraph of the escaped text,
\* nothing for a text of white space
markedParse(s) ==
    IF Trim(s) = <<>> THEN <<>>
    ELSE IF RunIn(s, 1, {"#"}) \in 1..6 /\ RunIn(s, 1 + RunIn(s, 1, {"#"}), {" "}) >= 1
         THEN <<"<h>">> \o escapeHtml(Trim(SubSeq(s, 1 + RunIn(s, 1, {"#"}), Len(s))))
                  \o <<"</h>", NL>>
         ELSE <<"<p>">> \o escapeHtml(Trim(s)) \o <<"</p>", NL>>

\* what typeof marked and marked.parse can come to
Renderers == {"present", "throws", "absent"}

\* tableTokens.forEach((tableHtml, index) => rendered = rendered.replaceAll(...))
RECURSIVE backSubstitute(_, _, _)
backSubstitute(rendered, tableTokens, index) ==
    IF index >= Len(tableTokens) THEN rendered
    ELSE backSubstitute(replaceAll(rendered, 1, tableToken(index), tableTokens[index + 1]),
                        tableTokens, index + 1)

\* the text shown for an empty rendering
NoContent == <<"<p>", "(", ")", "</p>">>

\* what markdownToHtml hands to marked.parse
normalizedMarkdown(md) ==
    LET markdownWithTables == replaceTables(md, 1, <<>>, <<>>).text
    IN  normalizeMarkdownForRendering(normalizeMarkdownTables(markdownWithTables), 1)

markdownToHtml(md, renderer) ==
    LET replaced == replaceTables(md, 1, <<>>, <<>>)
        markdownWithTables == replaced.text
        rendered ==
            IF renderer = "present" THEN markedParse(normalizedMarkdown(md))
            ELSE <<"<pre><code>">> \o escapeHtml(normalizedMarkdown(md)) \o <<"</code></pre>">>
        substituted == backSubstitute(rendered, replaced.tableTokens, 0)
    IN  IF renderer = "absent"
        THEN <<"<pre><code>">> \o escapeHtml(markdownWithTables) \o <<"</code></pre>">>
        ELSE IF substituted = <<>> THEN NoContent ELSE substituted

(***************************************************************************)
(* getElementsInArea (src/content.js 1194-1274).                           *)
(*                                                                         *)
(* The elements under body are 1..Len(d) in document order, the order of   *)
(* querySelectorAll('body *'). d[e] holds the element's parent (0: body),  *)
(* its bounding rectangle <<left, top, width, height>> and what it is:     *)
(* "page", or one of the extension's own nodes.                            *)
(***************************************************************************)
Left(r) == r[1]

Top(r) == r[2]

Width(r) == r[3]

Height(r) == r[4]

Min(a, b) == IF a <= b THEN a ELSE b

Max(a, b) == IF a >= b THEN a ELSE b

\* parent.contains(el), for el # parent: parent is a proper ancestor of el
RECURSIVE IsAncestor(_, _, _)
IsAncestor(d, p, e) ==
    /\ d[e].parent # 0
    /\ \/ d[e].parent = p
       \/ IsAncestor(d, p, d[e].parent)

\* el === floatingButton || floatingButton.contains(el) || el === overlay ||
\* el === selectionBox || el.classList.contains('mdcp-toast')
skipsOwn(d, e) ==
    \/ d[e].kind \in {"button", "overlay", "selectionBox", "toast"}
    \/ \E b \in 1..Len(d) : d[b].kind = "button" /\ IsAncestor(d, b, e)

\* the size test with a threshold of four selection areas
tooLarge_four(elementArea, selectionArea) == elementArea > selectionArea * 4

\* elementArea > selectionArea * 3
tooLarge(elementArea, selectionArea) == elementArea > selectionArea * 3

\* the centre of r lies in the rectangle left..right, top..bottom (twice the
\* coordinates, so that width / 2 stays an integer)
centreInside(r, left, top, right, bottom) ==
    LET centerX2 == 2 * Left(r) + Width(r)
        centerY2 == 2 * Top(r) + Height(r)
    IN  /\ centerX2 >= 2 * left /\ centerX2 <= 2 * right
        /\ centerY2 >= 2 * top /\ centerY2 <= 2 * bottom

\* allElements.forEach: whether el is pushed to elements
accepts(d, s, t, e) ==
    LET left   == Min(s[1], t[1])
        top    == Min(s[2], t[2])
        right  == Max(s[1], t[1])
        bottom == Max(s[2], t[2])
        selectionWidth  == right - left
        selectionHeight == bottom - top
        rect == d[e].rect
    IN  /\ ~skipsOwn(d, e)
        /\ ~tooLarge(Width(rect) * Height(rect), selectionWidth * selectionHeight)
        /\ centreInside(rect, left, top, right, bottom)

\* elements: the accepted elements in document order
RECURSIVE acceptedFrom(_, _, _, _)
acceptedFrom(d, s, t, e) ==
    IF e > Len(d) THEN <<>>
    ELSE (IF accepts(d, s, t, e) THEN <<e>> ELSE <<>>) \o acceptedFrom(d, s, t, e + 1)

InSeq(q, x) == \E k \in 1..Len(q) : q[k] = x

\* Array.from(parent.children).filter(child => rect.width > 0 && rect.height > 0)
visibleChildren(d, p) ==
    { c \in 1..Len(d) :
        d[c].parent = p /\ Width(d[c].rect) > 0 /\ Height(d[c].rect) > 0 }

\* index = optimizedElements.indexOf(child); if (index > -1) splice(index, 1)
RECURSIVE spliceOut(_, _)
spliceOut(q, x) ==
    IF q = <<>> THEN <<>>
    ELSE IF Head(q) = x THEN Tail(q) ELSE <<Head(q)>> \o spliceOut(Tail(q), x)

RECURSIVE spliceAll(_, _)
spliceAll(q, xs) ==
    IF xs = <<>> THEN q ELSE spliceAll(spliceOut(q, Head(xs)), Tail(xs))

\* the filter reduced to the direct children of parent
descendantsIn_children(d, elements, p) ==
    LET child(e) == d[e].parent = p
    IN  SelectSeq(elements, child)

\* descendants = elements.filter(el => el !== parent && parent.contains(el))
descendantsIn(d, elements, p) ==
    LET under(e) == e # p /\ IsAncestor(d, p, e)
    IN  SelectSeq(elements, under)

\* descendants.length > 0 && visibleChildren.length > 0 &&
\* selectedVisibleChildren.length === visibleChildren.length
absorbs(d, elements, p) ==
    LET vis == visibleChildren(d, p)
    IN  /\ Len(descendantsIn(d, elements, p)) > 0
        /\ vis # {}
        /\ \A c \in vis : InSeq(elements, c)

\* elements.forEach(parent => ...) over the frozen elements, from index k
RECURSIVE absorbFrom(_, _, _, _)
absorbFrom(d, elements, k, optimizedElements) ==
    IF k > Len(elements) THEN optimizedElements
    ELSE absorbFrom(d, elements, k + 1,
             IF absorbs(d, elements, elements[k])
             THEN spliceAll(optimizedElements, descendantsIn(d, elements, elements[k]))
             ELSE optimizedElements)

getElementsInArea(d, s, t) ==
    LET elements == acceptedFrom(d, s, t, 1)
    IN  absorbFrom(d, elements, 1, elements)

(***************************************************************************)
(* SpecArea: getElementsInArea on every page of NumElements elements with  *)
(* rectangles from AreaRects, and every drag between two of AreaPoints.    *)
(***************************************************************************)
NumElements == 3

AreaRects ==
    { <<0, 0, 4, 4>>,      \* a container
      <<0, 0, 2, 4>>,      \* its left half
      <<2, 0, 2, 4>>,      \* its right half
      <<1, 1, 2, 0>>,      \* an element of height 0
      <<1, 1, 2, 2>> }

AreaPoints == { <<0, 0>>, <<4, 4>>, <<1, 1>>, <<3, 1>>, <<3, 3>> }

\* document order is a preorder: the parent of e is e - 1, an ancestor of e - 1,
\* or body
RECURSIVE OnPath(_, _, _)
OnPath(ps, a, e) == a = 0 \/ a = e \/ (e # 0 /\ OnPath(ps, a, ps[e]))

AreaTrees ==
    { ps \in [1..NumElements -> 0..NumElements] :
        \A e \in 1..NumElements : ps[e] < e /\ OnPath(ps, ps[e], e - 1) }

AreaDoms ==
    { [e \in 1..NumElements |-> [parent |-> ps[e], rect |-> rs[e], kind |-> "page"]] :
        ps \in AreaTrees, rs \in [1..NumElements -> AreaRects] }

RectArea(r) == Width(r) * Height(r)

SelectionArea == (Max(start[1], end[1]) - Min(start[1], end[1]))
                 * (Max(start[2], end[2]) - Min(start[2], end[2]))

Accepted == { e \in 1..Len(dom) : accepts(dom, start, end, e) }

Resolved == { resolved[k] : k \in 1..Len(resolved) }

\* C2: no element of the result has a bounding area above three times the area
\* of the selection rectangle.
C2_AreaBound ==
    areaPc = "done" => \A e \in Resolved : RectArea(dom[e].rect) <= 3 * SelectionArea

\* the result holds an element although another element, whose centre is in the
\* rectangle too, was left out for its size
C2_Witness ==
    /\ areaPc = "done"
    /\ SelectionArea > 0
    /\ resolved # <<>>
    /\ \E e \in 1..Len(dom) :
          /\ RectArea(dom[e].rect) > 3 * SelectionArea
          /\ centreInside(dom[e].rect, Min(start[1], end[1]), Min(start[2], end[2]),
                          Max(start[1], end[1]), Max(start[2], end[2]))

\* p has a visible direct child and all its visible direct children are accepted
AllVisibleChildrenAccepted(p) ==
    /\ visibleChildren(dom, p) # {}
    /\ visibleChildren(dom, p) \subseteq Accepted

\* C3 as claimed: for every element P all of whose visible direct children are
\* accepted, the result holds P and none of those children.
C3_Original ==
    areaPc = "done" =>
        \A p \in 1..Len(dom) :
            AllVisibleChildrenAccepted(p) =>
                /\ p \in Resolved
                /\ visibleChildren(dom, p) \cap Resolved = {}

\* C3 as amended: for every accepted element P all of whose visible direct
\* children are accepted (and that has one), the result holds no descendant of P;
\* it holds P itself unless P is a descendant of another such accepted element.
C3_Absorption ==
    areaPc = "done" =>
        \A p \in Accepted :
            AllVisibleChildrenAccepted(p) =>
                /\ \A e \in Resolved : ~IsAncestor(dom, p, e)
                /\ p \in Resolved <=>
                      ~\E q \in Accepted :
                          IsAncestor(dom, q, p) /\ AllVisibleChildrenAccepted(q)

\* a container absorbed its children and its grandchild, where the middle element
\* alone would not have absorbed anything
C3_Witness ==
    /\ areaPc = "done"
    /\ \E g \in Accepted, p \in Accepted, c \in Accepted :
          /\ dom[p].parent = g
          /\ dom[c].parent = p
          /\ AllVisibleChildrenAccepted(g)
          /\ ~AllVisibleChildrenAccepted(p)
          /\ Resolved \cap {g, p, c} = {g}

(***************************************************************************)
(* SpecLinks: extractLinksFromMarkdown on texts made of up to              *)
(* MaxLinkChunks pieces.                                                   *)
(***************************************************************************)
MaxLinkChunks == 5

UrlA == <<"h", "t", "t", "p", ":", "/", "/", "a">>

UrlSlash == UrlA \o <<"/">>

LinkUrls == {UrlA, UrlSlash}

LinkChunks ==
    LinkUrls \cup { <<"[", "t", "]", "(">>, <<")">>, <<" ">>, <<"<">>, <<">">> }

LinkTexts ==
    { Concat(cs) : cs \in UNION { [1..n -> LinkChunks] : n \in 0..MaxLinkChunks } }

\* [t](u)
LinkTo(u) == <<"[", "t", "]", "(">> \o u \o <<")">>

\* C7: a text that holds one URL, once as a link target and once bare, yields
\* exactly one entry, that URL.
C7_LinkAndBareOnce ==
    linkPc = "done" =>
        \A u \in LinkUrls :
            markdown \in { LinkTo(u) \o <<" ">> \o u, u \o <<" ">> \o LinkTo(u) }
                => links = <<u>>

(***************************************************************************)
(* SpecNorm: normalizeMarkdownTables applied once and twice to texts made  *)
(* of up to MaxChunks pieces.                                              *)
(***************************************************************************)
MaxChunks == 5

TableHead == <<Pipe, NL, "-", "-", "-", Pipe, "-", "-", "-">>

NormChunks ==
    { TableHead \o <<NL>>,              \* a header line and a separator line
      <<Pipe, Backtick, NL>>,           \* a row that ends in a backtick
      Fence,
      <<Backtick, Backtick>>,
      <<" ">> \o TableHead,             \* a table whose header is indented
      <<"a", NL>> }

NormTexts ==
    { Concat(cs) : cs \in UNION { [1..n -> NormChunks] : n \in 0..MaxChunks } }

(***************************************************************************)
(* The selection controller of src/content.js on one page.                 *)
(*                                                                         *)
(* The page has the elements 1..NumPage; the entry button, the overlay and *)
(* the selection box follow them in the document while they exist.         *)
(***************************************************************************)
PageDom ==
    << [parent |-> 0, rect |-> <<0, 0, 4, 4>>, kind |-> "page"],     \* a container
       [parent |-> 1, rect |-> <<0, 0, 4, 2>>, kind |-> "page"],     \* its only child
       [parent |-> 0, rect |-> <<1, 0, 2, 0>>, kind |-> "page"] >>   \* an element of height 0

NumPage == Len(PageDom)

PageElements == 1..NumPage

ButtonEl == NumPage + 1

\* where the user puts the pointer: on the container, on the element of height 0
\* and on the entry button
Targets == {1, 3, ButtonEl}

\* where the primary button can go down, and where the pointer can be dragged to
DownPoints == { <<0, 0>> }

MovePoints == { <<3, 0>>, <<4, 4>> }

ButtonRect == <<9, 9, 1, 1>>

ViewportRect == <<0, 0, 10, 10>>

PanelRect == <<6, 5, 4, 4>>

\* updateSelectionBox: the box spans areaStartPos and areaEndPos
BoxRect(s, t) ==
    << Min(s[1], t[1]), Min(s[2], t[2]),
       Max(s[1], t[1]) - Min(s[1], t[1]), Max(s[2], t[2]) - Min(s[2], t[2]) >>

\* document.querySelectorAll('body *'): the page, then the extension's nodes in
\* the order they were appended
Document ==
    PageDom
    \o << [parent |-> 0, rect |-> ButtonRect, kind |-> "button"] >>
    \o (IF previewPanel
        THEN << [parent |-> 0, rect |-> PanelRect, kind |-> "panel"] >>
        ELSE <<>>)
    \o (IF overlay
        THEN << [parent |-> 0, rect |-> ViewportRect, kind |-> "overlay"] >>
        ELSE <<>>)
    \o (IF selectionBox
        THEN << [parent |-> 0, rect |-> BoxRect(areaStartPos, areaEndPos),
                 kind |-> "selectionBox"] >>
        ELSE <<>>)

(***************************************************************************)
(* The image copies: captureArea, copyMultipleElementsAsImage and          *)
(* copyFullPageAsImage (src/content.js 698-870), as functions of the       *)
(* elements' rectangles and of what the browser answers.                   *)
(***************************************************************************)
\* the padding copyMultipleElementsAsImage puts around the elements
Padding == 10

\* document.documentElement.scrollWidth and scrollHeight
PageSize == <<10, 20>>

MinOf(S) == CHOOSE x \in S : \A y \in S : x <= y

MaxOf(S) == CHOOSE x \in S : \A y \in S : x >= y

\* copyMultipleElementsAsImage: the bounding box of the elements with its
\* padding, cut to the page (the page is not scrolled). Without elements minX
\* stays Infinity and maxX -Infinity: a box of negative width and height.
captureBox(rects) ==
    IF rects = <<>> THEN [x |-> 0, y |-> 0, width |-> 0 - 1, height |-> 0 - 1]
    ELSE
    LET ks == 1..Len(rects)
        minX == Max(0, MinOf({Left(rects[k]) : k \in ks}) - Padding)
        minY == Max(0, MinOf({Top(rects[k]) : k \in ks}) - Padding)
        maxX == Min(PageSize[1],
                    MaxOf({Left(rects[k]) + Width(rects[k]) : k \in ks}) + Padding)
        maxY == Min(PageSize[2],
                    MaxOf({Top(rects[k]) + Height(rects[k]) : k \in ks}) + Padding)
    IN  [x |-> minX, y |-> minY, width |-> maxX - minX, height |-> maxY - minY]

\* copyFullPageAsImage: the whole page
pageBox == [x |-> 0, y |-> 0, width |-> PageSize[1], height |-> PageSize[2]]

\* width <= 0 || height <= 0
noWidth(box) == box.width <= 0 \/ box.height <= 0

\* for (c = from; c < to; c += step): how often the body runs
RECURSIVE loopCount(_, _, _)
loopCount(from, to, step) ==
    IF from < to THEN 1 + loopCount(from + step, to, step) ELSE 0

\* captureArea: the viewport-sized chunks the two loops go through
chunkCount(box) ==
    loopCount(box.y, box.y + box.height, Height(ViewportRect))
    * loopCount(box.x, box.x + box.width, Width(ViewportRect))

\* what chrome.runtime.sendMessage({type: 'mdcp-capture-visible'}) can give: a
\* data URI, an error response, a response without data URI, a rejection
Responses == {"data", "error", "noData", "throws"}

NoBlob == [null |-> TRUE, drawn |-> {}, chunks |-> 0]

\* captureArea: null when a request throws or canvas.toBlob gives null
\* (encoded false); a chunk whose response has no image is left blank
captureArea(box, responses, encoded) ==
    LET n == chunkCount(box)
    IN  IF \E k \in 1..n : responses[k] = "throws" THEN NoBlob
        ELSE IF ~encoded THEN NoBlob
        ELSE [null |-> FALSE, drawn |-> {k \in 1..n : responses[k] = "data"},
              chunks |-> n]

\* the capture and the clipboard write of both image copies; creating: the toast
\* shown first; writeOk: navigator.clipboard.write resolves
imageCopy(box, creating, responses, encoded, writeOk) ==
    LET blob == captureArea(box, responses, encoded)
    IN  IF blob.null
        THEN [written |-> NoBlob, toasts |-> <<creating, "imageCaptureFailed">>,
              returned |-> FALSE]
        ELSE IF ~writeOk
        THEN [written |-> NoBlob, toasts |-> <<creating, "imageCopyFailed">>,
              returned |-> FALSE]
        ELSE [written |-> blob, toasts |-> <<creating, "imageCopied">>,
              returned |-> TRUE]

copyMultipleElementsAsImage(rects, responses, encoded, writeOk) ==
    LET box == captureBox(rects)
    IN  IF noWidth(box)
        THEN [written |-> NoBlob, toasts |-> <<"imageCreating">>, returned |-> FALSE]
        ELSE imageCopy(box, "imageCreating", responses, encoded, writeOk)

\* copyFullPageAsImage from its start to its end
fullPageImage(responses, encoded, writeOk) ==
    imageCopy(pageBox, "pageImageCreating", responses, encoded, writeOk)

\* the getBoundingClientRect of each of elements
rectsOf(elements) == [k \in 1..Len(elements) |-> Document[elements[k]].rect]

\* the text each page element converts to
ElementText == << <<"A">>, <<"B">>, <<"C">> >>

PageText == <<"P">>

\* how a conversion can end
Outcomes == {"text", "empty", "throws"}

NoToast == [msg |-> "none", n |-> 0]

Toast(m) == [msg |-> m, n |-> 0]

CountToast(m, k) == [msg |-> m, n |-> k]

ElementsOf(q) == { q[k] : k \in 1..Len(q) }

\* convertToMarkdown: the Markdown of element, or null when the conversion throws
convertToMarkdown(element, outcome) ==
    IF outcome = "throws" THEN [null |-> TRUE, md |-> <<>>]
    ELSE [null |-> FALSE, md |-> IF outcome = "empty" THEN <<>> ELSE ElementText[element]]

\* elements.map(el => convertToMarkdown(el))
RECURSIVE convertAll(_, _)
convertAll(elements, outcomes) ==
    IF elements = <<>> THEN <<>>
    ELSE <<convertToMarkdown(Head(elements), outcomes[Head(elements)])>>
         \o convertAll(Tail(elements), outcomes)

\* a filter that keeps every conversion, the failed ones as empty text
keepsMarkdown_all(md) == TRUE

\* .filter(md => md): null and the empty string are dropped
keepsMarkdown(md) == ~md.null /\ md.md # <<>>

\* the texts of the kept conversions
RECURSIVE keptTexts(_)
keptTexts(mds) ==
    IF mds = <<>> THEN <<>>
    ELSE (IF keepsMarkdown(Head(mds)) THEN <<Head(mds).md>> ELSE <<>>)
         \o keptTexts(Tail(mds))

\* selectedElements.length > 0 ? selectedElements : (currentElement ? [currentElement] : [])
elementsToProcess(selected, current) ==
    IF Len(selected) > 0 THEN selected
    ELSE IF current # 0 THEN <<current>> ELSE <<>>

\* processAndCopy goes on with no element at all
nothingToProcess_never(elements) == FALSE

\* elementsToProcess.length === 0
nothingToProcess(elements) == Len(elements) = 0

\* classList.remove on every element of elements
withoutClass(marked, elements) == marked \ ElementsOf(elements)

\* the marker classes of the selected elements are left in place
clearSelected_kept(marked, elements) == marked

\* selectedElements.forEach(el => el.classList.remove(...))
clearSelected(marked, elements) == withoutClass(marked, elements)

\* how many asynchronous operations can be pending when a further one starts: in
\* selection mode and in Idle; and how many timers
MaxPending == 1

MaxIdlePending == 2

MaxTimers == 1

PendingLimit == IF isSelectionMode THEN MaxPending ELSE MaxIdlePending

\* how often the user enters selection mode
MaxSessions == 1

\* the variables deactivateSelectionMode writes
modeVars ==
    <<isSelectionMode, copyAsImage, isAreaSelectionMode, isDrawingArea,
      justFinishedAreaSelection, currentElement, selectedElements, overlay,
      selectionBox, listening, outlined, multiSelected>>

\* activateSelectionMode, called with isSelectionMode false
activateSelectionMode ==
    /\ sessions < sessionLimit
    /\ sessions' = sessions + 1
    /\ isSelectionMode' = TRUE
    /\ overlay' = TRUE
    /\ listening' = TRUE
    /\ toast' = Toast("howTo")

deactivateSelectionMode ==
    IF ~isSelectionMode THEN UNCHANGED modeVars
    ELSE /\ isSelectionMode' = FALSE
         /\ copyAsImage' = FALSE
         /\ isAreaSelectionMode' = FALSE
         /\ isDrawingArea' = FALSE
         /\ justFinishedAreaSelection' = FALSE
         /\ currentElement' = 0
         /\ outlined' = clearSelected(outlined \ {currentElement}, selectedElements)
         /\ multiSelected' = clearSelected(multiSelected, selectedElements)
         /\ selectedElements' = <<>>
         /\ overlay' = FALSE
         /\ selectionBox' = FALSE
         /\ listening' = FALSE

\* the pointer enters t; handleMouseOver when the listeners are installed
MouseOver(t) ==
    /\ t # pointerAt
    /\ ~isDragging
    /\ pointerAt' = t
    /\ IF listening /\ isSelectionMode /\ ~isAreaSelectionMode /\ t # ButtonEl
       THEN /\ currentElement' = t
            /\ outlined' = (outlined \ {currentElement}) \cup {t}
       ELSE UNCHANGED <<currentElement, outlined>>
    /\ toast' = NoToast
    /\ UNCHANGED <<normVars, linkVars, areaVars, imageVars, convVars, sideVars, sessions, isSelectionMode, selectedElements, overlay, selectionBox, copyAsImage,
                   isAreaSelectionMode, isDrawingArea, areaStartPos, areaEndPos,
                   justFinishedAreaSelection, isDragging, wasDragged, listening,
                   multiSelected, previewPanel, previewMarkdown, pressed, altKey,
                   resetTimers, pending>>

\* the primary button goes down on the entry button: handleDragStart
\* (handleMouseDown returns for the entry button)
PressButton ==
    /\ ~pressed
    /\ pointerAt = ButtonEl
    /\ pressed' = TRUE
    /\ isDragging' = TRUE
    /\ wasDragged' = FALSE
    /\ toast' = NoToast
    /\ UNCHANGED <<normVars, linkVars, areaVars, imageVars, convVars, sideVars, sessions, isSelectionMode, currentElement, selectedElements, overlay,
                   selectionBox, copyAsImage, isAreaSelectionMode, isDrawingArea,
                   areaStartPos, areaEndPos, justFinishedAreaSelection, listening,
                   outlined, multiSelected, previewPanel, previewMarkdown, pointerAt,
                   altKey, resetTimers, pending>>

\* the primary button goes down at p on the page with Alt held: handleMouseDown
PressArea(p) ==
    /\ ~pressed
    /\ pointerAt # ButtonEl
    /\ listening /\ isSelectionMode
    /\ altKey
    /\ resetTimers < MaxTimers
    /\ pressed' = TRUE
    /\ isDrawingArea' = TRUE
    /\ areaStartPos' = p
    /\ areaEndPos' = p
    /\ selectionBox' = TRUE
    /\ toast' = NoToast
    /\ UNCHANGED <<normVars, linkVars, areaVars, imageVars, convVars, sideVars, sessions, isSelectionMode, currentElement, selectedElements, overlay,
                   copyAsImage, isAreaSelectionMode, justFinishedAreaSelection,
                   isDragging, wasDragged, listening, outlined, multiSelected,
                   previewPanel, previewMarkdown, pointerAt, altKey, resetTimers,
                   pending>>

\* the pointer moves to p with the button down: handleMouseMoveArea while an area
\* is drawn, handleDragMove (far: beyond the 5px threshold) while the entry button
\* is dragged
Move(p, far) ==
    /\ pressed
    /\ \/ /\ listening /\ isSelectionMode /\ isDrawingArea
          /\ areaEndPos' = p
          /\ UNCHANGED wasDragged
       \/ /\ isDragging
          /\ wasDragged' = (wasDragged \/ far)
          /\ UNCHANGED areaEndPos
    /\ <<areaEndPos', wasDragged'>> # <<areaEndPos, wasDragged>>
    /\ toast' = NoToast
    /\ UNCHANGED <<normVars, linkVars, areaVars, imageVars, convVars, sideVars, sessions, isSelectionMode, currentElement, selectedElements, overlay,
                   selectionBox, copyAsImage, isAreaSelectionMode, isDrawingArea,
                   areaStartPos, justFinishedAreaSelection, isDragging, listening,
                   outlined, multiSelected, previewPanel, previewMarkdown, pointerAt,
                   pressed, altKey, resetTimers, pending>>

\* selectedInArea.forEach without the test: every element found is pushed
pushNew_all(selected, found) == selected \o found

\* selectedInArea.forEach: push the elements not yet selected
RECURSIVE pushNew(_, _)
pushNew(selected, found) ==
    IF found = <<>> THEN selected
    ELSE pushNew(IF InSeq(selected, Head(found)) THEN selected
                 ELSE Append(selected, Head(found)),
                 Tail(found))

\* handleMouseUp, called while an area is drawn
handleMouseUp ==
    LET selectedInArea == getElementsInArea(Document, areaStartPos, areaEndPos)
        selected == pushNew(selectedElements, selectedInArea)
    IN  /\ isDrawingArea' = FALSE
        /\ justFinishedAreaSelection' = TRUE
        /\ resetTimers' = resetTimers + 1
        /\ selectedElements' = selected
        /\ multiSelected' = multiSelected \cup (ElementsOf(selected) \ ElementsOf(selectedElements))
        /\ selectionBox' = FALSE
        /\ toast' = IF Len(selectedInArea) > 0
                    THEN CountToast("selected", Len(selected))
                    ELSE Toast("noElementsInArea")

\* the element a click toggles
clickedElement_target(current, target) == target

\* handleClick acts on currentElement, whatever the event's target is
clickedElement(current, target) == current

\* handleClick for a click on the page element target
handleClick(target) ==
    LET element == clickedElement(currentElement, target)
    IN  IF listening /\ isSelectionMode /\ ~justFinishedAreaSelection /\ element # 0
        THEN IF InSeq(selectedElements, element)
             THEN /\ selectedElements' = spliceOut(selectedElements, element)
                  /\ outlined' = outlined \ {element}
                  /\ multiSelected' = multiSelected \ {element}
                  /\ toast' = CountToast("deselected", Len(selectedElements) - 1)
             ELSE /\ selectedElements' = Append(selectedElements, element)
                  /\ multiSelected' = multiSelected \cup {element}
                  /\ toast' = CountToast("selected", Len(selectedElements) + 1)
                  /\ UNCHANGED outlined
        ELSE /\ toast' = NoToast
             /\ UNCHANGED <<selectedElements, outlined, multiSelected>>

\* a full-page copy that ends the selection mode the way processAndCopy does
copyFullPageAsMarkdown_deactivates(outcome) ==
    /\ Len(pending) < PendingLimit
    /\ pending' = Append(pending, [kind |-> "page", text |-> PageText])
    /\ toast' = Toast("pageCreating")
    /\ deactivateSelectionMode
    /\ UNCHANGED sessions

\* copyFullPageAsMarkdown up to its await
copyFullPageAsMarkdown(outcome) ==
    /\ IF outcome = "text"
       THEN /\ Len(pending) < PendingLimit
            /\ pending' = Append(pending, [kind |-> "page", text |-> PageText])
            /\ toast' = Toast("pageCreating")
       ELSE /\ toast' = Toast("convertFailed")
            /\ UNCHANGED pending
    /\ UNCHANGED <<modeVars, sessions>>

\* copyFullPageAsImage up to its first await
copyFullPageAsImage ==
    /\ Len(pending) < PendingLimit
    /\ pending' = Append(pending, [kind |-> "pageImage", text |-> <<>>])
    /\ toast' = Toast("pageImageCreating")
    /\ UNCHANGED <<modeVars, sessions>>

\* the activation leaves copyAsImage as it is
toggleSelectionMode_keepsTarget(asImage) ==
    IF ~isSelectionMode
    THEN /\ activateSelectionMode
         /\ UNCHANGED <<copyAsImage, isAreaSelectionMode, isDrawingArea,
                        justFinishedAreaSelection, currentElement, selectedElements,
                        selectionBox, outlined, multiSelected>>
    ELSE /\ deactivateSelectionMode
         /\ toast' = NoToast
         /\ UNCHANGED sessions

\* handleFloatingButtonClick and handleFloatingButtonRightClick after the Shift
\* test: the mode is entered (asImage: by the right button) or left
toggleSelectionMode(asImage) ==
    IF ~isSelectionMode
    THEN /\ copyAsImage' = asImage
         /\ activateSelectionMode
         /\ UNCHANGED <<isAreaSelectionMode, isDrawingArea, justFinishedAreaSelection,
                        currentElement, selectedElements, selectionBox, outlined,
                        multiSelected>>
    ELSE /\ deactivateSelectionMode
         /\ toast' = NoToast
         /\ UNCHANGED sessions

\* the primary button goes up after a press on the entry button: handleDragEnd,
\* then the click on the button, handleFloatingButtonClick. shift: event.shiftKey;
\* in selection mode handleKeyDown hides the button when it sees Shift go down,
\* and it sees no key that goes down while the focus is in another frame.
ReleaseButton(shift, outcome) ==
    /\ pressed
    /\ isDragging
    /\ pressed' = FALSE
    /\ isDragging' = FALSE
    /\ IF wasDragged
       THEN /\ wasDragged' = FALSE
            /\ toast' = NoToast
            /\ UNCHANGED <<modeVars, pending, sessions>>
       ELSE /\ UNCHANGED wasDragged
            /\ IF shift
               THEN copyFullPageAsMarkdown(outcome)
               ELSE /\ toggleSelectionMode(FALSE)
                    /\ UNCHANGED pending
    /\ UNCHANGED <<normVars, linkVars, areaVars, imageVars, convVars, sideVars, areaStartPos, areaEndPos,
                   previewPanel, previewMarkdown, pointerAt, altKey, resetTimers>>

\* the primary button goes up after a press on the page: handleMouseUp when an
\* area is drawn, then the click, handleClick, which finds
\* justFinishedAreaSelection set when handleMouseUp has just run
ReleasePage ==
    /\ pressed
    /\ ~isDragging
    /\ pressed' = FALSE
    /\ IF listening /\ isSelectionMode /\ isDrawingArea
       THEN /\ handleMouseUp
            /\ UNCHANGED outlined
       ELSE /\ handleClick(pointerAt)
            /\ UNCHANGED <<isDrawingArea, justFinishedAreaSelection, resetTimers,
                           selectionBox>>
    /\ UNCHANGED <<normVars, linkVars, areaVars, imageVars, convVars, sideVars, sessions, isSelectionMode, copyAsImage, isAreaSelectionMode, currentElement,
                   overlay, listening, isDragging, wasDragged, pending, areaStartPos,
                   areaEndPos, previewPanel, previewMarkdown, pointerAt, altKey>>

\* a click on the page with nothing that makes the press start a gesture:
\* mousedown and mouseup change nothing and handleClick runs
PlainClick ==
    /\ ~pressed
    /\ pointerAt # ButtonEl
    /\ listening /\ isSelectionMode
    /\ ~altKey
    /\ handleClick(pointerAt)
    /\ UNCHANGED <<normVars, linkVars, areaVars, imageVars, convVars, sideVars, sessions, isSelectionMode, currentElement, overlay, selectionBox, copyAsImage,
                   isAreaSelectionMode, isDrawingArea, areaStartPos, areaEndPos,
                   justFinishedAreaSelection, isDragging, wasDragged, listening,
                   previewPanel, previewMarkdown, pointerAt, pressed, altKey,
                   resetTimers, pending>>

\* the secondary button on the entry button: handleFloatingButtonRightClick
RightClickButton(shift) ==
    /\ ~pressed
    /\ pointerAt = ButtonEl
    /\ IF shift
       THEN copyFullPageAsImage
       ELSE /\ toggleSelectionMode(TRUE)
            /\ UNCHANGED pending
    /\ UNCHANGED <<normVars, linkVars, areaVars, imageVars, convVars, sideVars, areaStartPos, areaEndPos, isDragging,
                   wasDragged, previewPanel, previewMarkdown, pointerAt, pressed,
                   altKey, resetTimers>>

\* Escape that only ever cancels the area
KeyDownEscape_areaOnly ==
    /\ listening /\ isSelectionMode
    /\ isDrawingArea' = FALSE
    /\ selectionBox' = FALSE
    /\ toast' = Toast("areaCancelled")
    /\ UNCHANGED <<isSelectionMode, copyAsImage, isAreaSelectionMode,
                   justFinishedAreaSelection, currentElement, selectedElements,
                   overlay, listening, outlined, multiSelected>>
    /\ UNCHANGED <<normVars, linkVars, areaVars, imageVars, convVars, sideVars, sessions, areaStartPos, areaEndPos, isDragging, wasDragged, previewPanel,
                   previewMarkdown, pointerAt, pressed, altKey, resetTimers, pending>>

\* handleKeyDown for Escape
KeyDownEscape ==
    /\ listening /\ isSelectionMode
    /\ IF isDrawingArea
       THEN /\ isDrawingArea' = FALSE
            /\ selectionBox' = FALSE
            /\ toast' = Toast("areaCancelled")
            /\ UNCHANGED <<isSelectionMode, copyAsImage, isAreaSelectionMode,
                           justFinishedAreaSelection, currentElement, selectedElements,
                           overlay, listening, outlined, multiSelected>>
       ELSE /\ toast' = Toast("modeCancelled")
            /\ deactivateSelectionMode
    /\ UNCHANGED <<normVars, linkVars, areaVars, imageVars, convVars, sideVars, sessions, areaStartPos, areaEndPos, isDragging, wasDragged, previewPanel,
                   previewMarkdown, pointerAt, pressed, altKey, resetTimers, pending>>

\* the conversions joined by a single line break
combinedMarkdown_oneBreak(markdowns) == Join(markdowns, <<NL>>)

\* markdowns.join('\n\n')
combinedMarkdown(markdowns) == Join(markdowns, <<NL, NL>>)

\* processAndCopy up to its await; outcomes: how the conversion of each element ends
processAndCopy(outcomes) ==
    LET elements == elementsToProcess(selectedElements, currentElement)
        markdowns == keptTexts(convertAll(elements, outcomes))
    IN  IF nothingToProcess(elements)
        THEN /\ toast' = Toast("noneSelected")
             /\ UNCHANGED <<modeVars, pending>>
        ELSE IF copyAsImage
        THEN \* copyMultipleElementsAsImage runs to its return for an empty box or
             \* to its first await, unawaited
             /\ IF noWidth(captureBox(rectsOf(elements)))
                THEN UNCHANGED pending
                ELSE /\ Len(pending) < PendingLimit
                     /\ pending' = Append(pending, [kind |-> "image", text |-> <<>>])
             /\ toast' = Toast("imageCreating")
             /\ deactivateSelectionMode
        ELSE IF Len(markdowns) > 0
        THEN \* await copyToClipboard(combinedMarkdown): the rest runs in Settle
             /\ Len(pending) < PendingLimit
             /\ pending' = Append(pending,
                               [kind |-> "commit", text |-> combinedMarkdown(markdowns)])
             /\ toast' = NoToast
             /\ UNCHANGED modeVars
        ELSE /\ toast' = Toast("convertFailed")
             /\ deactivateSelectionMode
             /\ UNCHANGED pending

\* how the conversions of the elements to process can end
ConversionOutcomes ==
    [ElementsOf(elementsToProcess(selectedElements, currentElement)) -> Outcomes]

\* handleKeyDown for Enter
KeyDownEnter(outcomes) ==
    /\ listening /\ isSelectionMode
    /\ UNCHANGED <<normVars, linkVars, areaVars, imageVars, convVars, sideVars, sessions, areaStartPos, areaEndPos,
                   isDragging, wasDragged, previewPanel, previewMarkdown, pointerAt,
                   pressed, altKey, resetTimers>>
    /\ processAndCopy(outcomes)

\* Alt goes down, or repeats: handleKeyDown for Alt
KeyDownAlt ==
    /\ altKey' = TRUE
    /\ IF listening /\ isSelectionMode /\ ~isAreaSelectionMode
       THEN /\ isAreaSelectionMode' = TRUE
            /\ toast' = Toast("areaMode")
       ELSE /\ ~altKey
            /\ toast' = NoToast
            /\ UNCHANGED isAreaSelectionMode
    /\ UNCHANGED <<normVars, linkVars, areaVars, imageVars, convVars, sideVars, sessions, isSelectionMode, currentElement, selectedElements, overlay,
                   selectionBox, copyAsImage, isDrawingArea, areaStartPos, areaEndPos,
                   justFinishedAreaSelection, isDragging, wasDragged, listening,
                   outlined, multiSelected, previewPanel, previewMarkdown, pointerAt,
                   pressed, resetTimers, pending>>

\* Alt goes up: handleKeyUp for Alt
KeyUpAlt ==
    /\ altKey
    /\ altKey' = FALSE
    /\ IF listening /\ isSelectionMode /\ isAreaSelectionMode /\ ~isDrawingArea
       THEN /\ isAreaSelectionMode' = FALSE
            /\ toast' = Toast("areaModeEnd")
       ELSE /\ toast' = NoToast
            /\ UNCHANGED isAreaSelectionMode
    /\ UNCHANGED <<normVars, linkVars, areaVars, imageVars, convVars, sideVars, sessions, isSelectionMode, currentElement, selectedElements, overlay,
                   selectionBox, copyAsImage, isDrawingArea, areaStartPos, areaEndPos,
                   justFinishedAreaSelection, isDragging, wasDragged, listening,
                   outlined, multiSelected, previewPanel, previewMarkdown, pointerAt,
                   pressed, resetTimers, pending>>

\* the 100 ms timer of handleMouseUp fires
TimerFires ==
    /\ resetTimers > 0
    /\ resetTimers' = resetTimers - 1
    /\ justFinishedAreaSelection' = FALSE
    /\ toast' = NoToast
    /\ UNCHANGED <<normVars, linkVars, areaVars, imageVars, convVars, sideVars, sessions, isSelectionMode, currentElement, selectedElements, overlay,
                   selectionBox, copyAsImage, isAreaSelectionMode, isDrawingArea,
                   areaStartPos, areaEndPos, isDragging, wasDragged, listening,
                   outlined, multiSelected, previewPanel, previewMarkdown, pointerAt,
                   pressed, altKey, pending>>

\* pending without its entry i
dropAt(q, i) == SubSeq(q, 1, i - 1) \o SubSeq(q, i + 1, Len(q))

\* the clean up is skipped when the write failed
afterCopy_cleanupOnSuccess(copied, combined) ==
    IF copied
    THEN /\ previewPanel' = TRUE
         /\ previewMarkdown' = combined
         /\ deactivateSelectionMode
    ELSE UNCHANGED <<previewPanel, previewMarkdown, modeVars>>

\* the Preview Panel is shown whether the write succeeded or not
afterCopy_previewAlways(copied, combined) ==
    /\ previewPanel' = TRUE
    /\ previewMarkdown' = combined
    /\ deactivateSelectionMode

\* processAndCopy after await copyToClipboard(combinedMarkdown)
afterCopy(copied, combined) ==
    /\ IF copied
       THEN \* showPreviewPanel(combinedMarkdown)
            /\ previewPanel' = TRUE
            /\ previewMarkdown' = combined
       ELSE UNCHANGED <<previewPanel, previewMarkdown>>
    /\ deactivateSelectionMode

\* the asynchronous operation pending[i] ends; ok: the clipboard took the write.
\* A commit goes on in copyToClipboard and processAndCopy after their awaits, a
\* page copy in copyToClipboard and copyFullPageAsMarkdown.
SettleText(i, ok) ==
    /\ i \in 1..Len(pending)
    /\ pending[i].kind \in {"commit", "page"}
    /\ pending' = dropAt(pending, i)
    /\ toast' = IF ok THEN Toast("copied") ELSE Toast("copyFailed")
    /\ IF pending[i].kind = "commit"
       THEN afterCopy(ok, pending[i].text)
       ELSE UNCHANGED <<previewPanel, previewMarkdown, modeVars>>
    /\ UNCHANGED <<normVars, linkVars, areaVars, imageVars, convVars, sideVars, sessions, areaStartPos, areaEndPos, isDragging, wasDragged, pointerAt,
                   pressed, altKey, resetTimers>>

\* an image copy ends: captureArea gave no image ("capture"), the clipboard
\* refused it ("write") or took it ("ok")
SettleImage(i, result) ==
    /\ i \in 1..Len(pending)
    /\ pending[i].kind \in {"image", "pageImage"}
    /\ pending' = dropAt(pending, i)
    /\ toast' = Toast(CASE result = "ok" -> "imageCopied"
                        [] result = "capture" -> "imageCaptureFailed"
                        [] OTHER -> "imageCopyFailed")
    /\ UNCHANGED <<normVars, linkVars, areaVars, imageVars, convVars, sideVars, sessions, modeVars, areaStartPos, areaEndPos, isDragging, wasDragged,
                   previewPanel, previewMarkdown, pointerAt, pressed, altKey,
                   resetTimers>>

InitCtl ==
    /\ isSelectionMode = FALSE
    /\ currentElement = 0
    /\ selectedElements = <<>>
    /\ overlay = FALSE
    /\ selectionBox = FALSE
    /\ copyAsImage = FALSE
    /\ isAreaSelectionMode = FALSE
    /\ isDrawingArea = FALSE
    /\ areaStartPos = <<0, 0>>
    /\ areaEndPos = <<0, 0>>
    /\ justFinishedAreaSelection = FALSE
    /\ isDragging = FALSE
    /\ wasDragged = FALSE
    /\ listening = FALSE
    /\ outlined = {}
    /\ multiSelected = {}
    /\ previewPanel = FALSE
    /\ previewMarkdown = <<>>
    /\ pointerAt = ButtonEl
    /\ pressed = FALSE
    /\ altKey = FALSE
    /\ resetTimers = 0
    /\ pending = <<>>
    /\ sessions = 0
    /\ toast = NoToast

\* the variables of the normalizer, the link extractor, ... where a specification
\* does not use them
IdleNorm == text = <<>> /\ once = <<>> /\ twice = <<>> /\ normPc = "off"

IdleLinks == markdown = <<>> /\ links = <<>> /\ linkPc = "off"

IdleArea ==
    /\ dom = <<>>
    /\ start = <<0, 0>>
    /\ end = <<0, 0>>
    /\ resolved = <<>>
    /\ areaPc = "off"

IdleImage == imageIn = <<>> /\ imageOut = <<>> /\ imagePc = "off"

IdleConv == convIn = <<>> /\ convOut = <<>> /\ convPc = "off"

IdleRender == renderIn = <<>> /\ renderOut = <<>> /\ renderPc = "off"

\* no panel: previewState as declared, and no node of the panel
IdlePanel ==
    /\ activeTab = "render"
    /\ textareaValue = <<>>
    /\ renderPane = <<>>
    /\ linksContainer = <<>>
    /\ activeTabButton = "none"
    /\ visiblePane = "none"

NoResize == [x |-> 0, y |-> 0, width |-> 0, height |-> 0, left |-> 0, top |-> 0, handle |-> ""]

IdleGeom ==
    /\ innerSize = <<0, 0>>
    /\ panelRect = <<0, 0, 0, 0>>
    /\ isPreviewDragging = FALSE
    /\ previewDragOffset = <<0, 0>>
    /\ isPreviewResizing = FALSE
    /\ previewResizeStart = NoResize
    /\ grabs = 0

IdleBackground == requests = <<>>

IdleCapture == capture = <<>>

IdleInject == script = "part_000" /\ clicks = <<>>

IdleLimit == sessionLimit = MaxSessions

IdleSide ==
    /\ IdleRender
    /\ IdlePanel
    /\ IdleGeom
    /\ IdleBackground
    /\ IdleCapture
    /\ IdleInject
    /\ IdleLimit

InitArea ==
    /\ dom \in AreaDoms
    /\ start \in AreaPoints
    /\ end \in AreaPoints
    /\ resolved = <<>>
    /\ areaPc = "in"
    /\ IdleNorm
    /\ IdleLinks
    /\ IdleImage
    /\ IdleConv
    /\ IdleSide
    /\ InitCtl

Resolve ==
    /\ areaPc = "in"
    /\ resolved' = getElementsInArea(dom, start, end)
    /\ areaPc' = "done"
    /\ UNCHANGED <<dom, start, end, normVars, linkVars, imageVars, convVars, sideVars, ctlVars>>

NextArea == Resolve

SpecArea == InitArea /\ [][NextArea]_vars

InitLinks ==
    /\ markdown \in LinkTexts
    /\ links = <<>>
    /\ linkPc = "in"
    /\ IdleNorm
    /\ IdleArea
    /\ IdleImage
    /\ IdleConv
    /\ IdleSide
    /\ InitCtl

ExtractLinks ==
    /\ linkPc = "in"
    /\ links' = extractLinksFromMarkdown(markdown)
    /\ linkPc' = "done"
    /\ UNCHANGED <<markdown, normVars, areaVars, imageVars, convVars, sideVars, ctlVars>>

NextLinks == ExtractLinks

SpecLinks == InitLinks /\ [][NextLinks]_vars

InitNorm ==
    /\ text \in NormTexts
    /\ once = <<>>
    /\ twice = <<>>
    /\ normPc = "in"
    /\ IdleLinks
    /\ IdleArea
    /\ IdleImage
    /\ IdleConv
    /\ IdleSide
    /\ InitCtl

Normalize ==
    /\ normPc = "in"
    /\ once' = normalizeMarkdownTables(text)
    /\ normPc' = "once"
    /\ UNCHANGED <<text, twice, linkVars, areaVars, imageVars, convVars, sideVars, ctlVars>>

NormalizeAgain ==
    /\ normPc = "once"
    /\ twice' = normalizeMarkdownTables(once)
    /\ normPc' = "twice"
    /\ UNCHANGED <<text, once, linkVars, areaVars, imageVars, convVars, sideVars, ctlVars>>

NextNorm == Normalize \/ NormalizeAgain

SpecNorm == InitNorm /\ [][NextNorm]_vars

\* C5: normalizeMarkdownTables is idempotent: normalizing the normalized text
\* changes nothing.
C5_Idempotent == normPc = "twice" => twice = once

\* where segment k of the input starts in the output (0-based offset): after the
\* normalized segments before it and one fence for each
RECURSIVE OffsetOf(_, _)
OffsetOf(segments, k) ==
    IF k = 1 THEN 0
    ELSE OffsetOf(segments, k - 1)
         + Len(IF (k - 2) % 2 = 1 THEN segments[k - 1] ELSE normalizeSegment(segments[k - 1]))
         + Len(Fence)

\* the characters a+1..b of s, or a marker no text equals when s is too short
Slice(s, a, b) == IF a >= 0 /\ b <= Len(s) THEN SubSeq(s, a + 1, b) ELSE <<"absent">>

\* C6: every segment of the input that follows an odd number of fence delimiters
\* stands unchanged in the output, at its place between the same delimiters.
C6_FencedUnchanged ==
    normPc # "in" =>
        LET segments == Split(text, Fence)
        IN  \A k \in 1..Len(segments) :
                (k % 2 = 0) =>
                    LET at == OffsetOf(segments, k)
                        to == at + Len(segments[k])
                    IN  /\ Slice(once, at, to) = segments[k]
                        /\ Slice(once, at - Len(Fence), at) = Fence
                        /\ k < Len(segments) => Slice(once, to, to + Len(Fence)) = Fence
                        /\ k = Len(segments) => Len(once) = to

\* a fenced segment, closed by a second fence, that holds a table the normalizer
\* would rewrite outside a fence, in a text it did rewrite elsewhere
C6_Witness ==
    /\ normPc = "once"
    /\ once # text
    /\ LET segments == Split(text, Fence)
       IN  \E k \in 1..Len(segments) :
               /\ k % 2 = 0
               /\ k < Len(segments)
               /\ normalizeSegment(segments[k]) # segments[k]


(***************************************************************************)
(* SpecImage: one image copy, of elements or of the full page, from its    *)
(* start to its end.                                                       *)
(***************************************************************************)
\* how many elements are copied at once
MaxImageElements == 2

\* rectangles of elements: on the first screen, of height 0, left of the page
\* and on the second screen
ImageRects == { <<0, 0, 4, 4>>, <<1, 0, 2, 0>>, <<0 - 30, 0, 2, 2>>, <<0, 15, 4, 4>> }

ImageElements == UNION { [1..n -> ImageRects] : n \in 1..MaxImageElements }

ImageInputs ==
    { [full |-> FALSE, rects |-> r, responses |-> a, encoded |-> e, writeOk |-> w] :
        <<r, a, e, w>> \in UNION { { <<rr, aa, ee, ww>> :
                                       aa \in [1..chunkCount(captureBox(rr)) -> Responses],
                                       ee \in BOOLEAN, ww \in BOOLEAN }
                                   : rr \in ImageElements } }
    \cup
    { [full |-> TRUE, rects |-> <<>>, responses |-> a, encoded |-> e, writeOk |-> w] :
        a \in [1..chunkCount(pageBox) -> Responses], e \in BOOLEAN, w \in BOOLEAN }

InitImage ==
    /\ imageIn \in ImageInputs
    /\ imageOut = <<>>
    /\ imagePc = "in"
    /\ IdleNorm
    /\ IdleLinks
    /\ IdleArea
    /\ IdleConv
    /\ IdleSide
    /\ InitCtl

CopyImage ==
    /\ imagePc = "in"
    /\ imageOut' = IF imageIn.full
                   THEN fullPageImage(imageIn.responses, imageIn.encoded, imageIn.writeOk)
                   ELSE copyMultipleElementsAsImage(imageIn.rects, imageIn.responses,
                                                    imageIn.encoded, imageIn.writeOk)
    /\ imagePc' = "done"
    /\ UNCHANGED <<imageIn, normVars, linkVars, areaVars, convVars, sideVars, ctlVars>>

NextImage == CopyImage

SpecImage == InitImage /\ [][NextImage]_vars

FailureToasts == {"imageCaptureFailed", "imageCopyFailed"}

FailureToastsShown ==
    Cardinality({k \in 1..Len(imageOut.toasts) : imageOut.toasts[k] \in FailureToasts})

\* a request was answered, before any request threw, with an error or without a
\* data URI
ChunkRequestFailed ==
    \E k \in 1..Len(imageIn.responses) :
        /\ imageIn.responses[k] \in {"error", "noData"}
        /\ \A j \in 1..(k - 1) : imageIn.responses[j] # "throws"

\* C18: an image copy in which a capture-visible request fails writes nothing
\* to the clipboard and shows exactly one failure toast.
C18_ChunkFailureAborts ==
    (imagePc = "done" /\ ChunkRequestFailed)
        => (imageOut.written.null /\ FailureToastsShown = 1)

\* C19: an image copy that ends without an image written to the clipboard ends
\* with a failure toast.
C19_NoSilentFailure ==
    (imagePc = "done" /\ imageOut.written.null)
        => imageOut.toasts[Len(imageOut.toasts)] \in FailureToasts

(***************************************************************************)
(* SpecConvert: convertToMarkdown (src/content.js 991-1020) on one element *)
(* with its subtree, and the table rule of the converter (122-133).        *)
(*                                                                         *)
(* An element is a record: a table with its marker classes and its rows,   *)
(* each row the sequence of its cells; or a block with its marker classes, *)
(* its text and its child elements. HTML and Markdown are sequences of     *)
(* tokens.                                                                 *)
(***************************************************************************)
Outline == "mdcp-selected-element-outline"

Multi == "mdcp-multi-selected"

\* classList.remove(name)
classListRemove(classes, name) ==
    LET other(c) == c # name
    IN  SelectSeq(classes, other)

\* the class attribute as outerHTML writes it
classAttribute(classes) ==
    IF classes = <<>> THEN <<>>
    ELSE <<" class=\"">> \o Join([k \in 1..Len(classes) |-> <<classes[k]>>], <<" ">>)
         \o <<"\"">>

\* A cell of a table is a record: its text, whether it has rowspan or colspan
\* (span), and the element inside the cell: one that wraps the text, a line
\* break before the text, or "none".

\* the cells of one row as outerHTML writes them
tableCells(cells) ==
    Concat([k \in 1..Len(cells) |->
        <<(IF cells[k].span THEN "<td colspan>" ELSE "<td>")>>
        \o (IF cells[k].child = "none" THEN <<cells[k].text>>
            ELSE IF cells[k].child = "br" THEN <<"<br>", cells[k].text>>
            ELSE <<"<", cells[k].child, ">", cells[k].text, "</", cells[k].child, ">">>)
        \o <<"</td>">>])

\* element.outerHTML
RECURSIVE outerHTML(_)
outerHTML(node) ==
    <<"<", node.tag>> \o classAttribute(node.classes) \o <<">">>
    \o (IF node.tag = "table"
        THEN Concat([r \in 1..Len(node.rows) |->
                 <<"<tr>">> \o tableCells(node.rows[r]) \o <<"</tr>">>])
        ELSE <<node.text>>
             \o Concat([k \in 1..Len(node.children) |-> outerHTML(node.children[k])]))
    \o <<"</", node.tag, ">">>

\* the selector of hasBlock: 'p, div, ul, ol, li, table, img, br'
BlockSelector == {"p", "div", "ul", "ol", "li", "table", "img", "br"}

\* isSimpleTable: no table inside the table, no cell with rowspan or colspan,
\* no cell with an element of the selector inside
isSimpleTable(table) ==
    /\ \A r \in 1..Len(table.rows) : \A k \in 1..Len(table.rows[r]) :
           table.rows[r][k].child # "table"
    /\ \A r \in 1..Len(table.rows) : \A k \in 1..Len(table.rows[r]) :
           /\ ~table.rows[r][k].span
           /\ table.rows[r][k].child \notin BlockSelector

\* rowToCells: the text of each cell (textContent: of the wrapped text too)
rowToCells(row) == [k \in 1..Len(row) |-> <<row[k].text>>]

\* normalizeRow: the first colCount cells, filled up with empty cells
normalizeRow(cells, colCount) ==
    [k \in 1..colCount |-> IF k <= Len(cells) THEN cells[k] ELSE <<>>]

\* toLine: `| ${cells.join(' | ')} |` (the blanks are left out)
toLine(cells) == <<"|">> \o Join(cells, <<"|">>) \o <<"|">>

\* header.length || Math.max(...rows.map(r => rowToCells(r).length))
colCountOf(rows) ==
    IF Len(rows[1]) # 0 THEN Len(rows[1])
    ELSE MaxOf({ Len(rows[r]) : r \in 1..Len(rows) })

\* tableToMarkdown: '' for a table without rows, else the header line of the
\* first row, the separator line and a line for each further row
tableToMarkdown(table) ==
    IF table.rows = <<>> THEN <<>>
    ELSE LET colCount == colCountOf(table.rows)
             headerRow == normalizeRow(rowToCells(table.rows[1]), colCount)
             separator == [k \in 1..colCount |-> <<"---">>]
             bodyRows == [r \in 1..(Len(table.rows) - 1) |->
                             normalizeRow(rowToCells(table.rows[r + 1]), colCount)]
         IN  Join(<<toLine(headerRow), toLine(separator)>>
                  \o [r \in 1..Len(bodyRows) |-> toLine(bodyRows[r])], <<NL>>)

\* the replacement of the rule tableConversion
tableConversion(node) ==
    IF isSimpleTable(node) /\ tableToMarkdown(node) # <<>>
    THEN <<NL, NL>> \o tableToMarkdown(node) \o <<NL, NL>>
    ELSE <<NL, NL>> \o outerHTML(node) \o <<NL, NL>>

\* turndownService.turndown: a table goes through the rule tableConversion;
\* of any other element the converter keeps the content, not the attributes
RECURSIVE turndown(_)
turndown(node) ==
    IF node.tag = "table" THEN tableConversion(node)
    ELSE <<node.text>>
         \o Concat([k \in 1..Len(node.children) |-> turndown(node.children[k])])

\* extractYouTubeMetadata: never empty, the page has a URL
YouTubeMetadata == <<"# title", NL, "url">>

\* convertToMarkdown on the element node; site: where the page is; throws: an
\* exception is raised inside the try block
convertElement(node, site, throws) ==
    IF throws THEN [null |-> TRUE, md |-> <<>>]
    ELSE IF site = "youtube" THEN [null |-> FALSE, md |-> YouTubeMetadata]
    ELSE LET clonedElement == [node EXCEPT !.classes = classListRemove(@, Outline)]
         IN  [null |-> FALSE, md |-> turndown(clonedElement)]

\* how many cells the row of a table has
MaxCells == 1

\* the class lists the controller leaves on an element: hovered, selected, or
\* both in either order
MarkedClassLists == { <<Outline>>, <<Multi>>, <<Outline, Multi>>, <<Multi, Outline>> }

ClassLists == MarkedClassLists \cup { <<>> }

\* a cell with the text in itself, with rowspan or colspan or without
PlainCells == { [text |-> "x", span |-> m, child |-> "none"] : m \in BOOLEAN }

TableNodes(classLists) ==
    { [tag |-> "table", classes |-> c, rows |-> x] :
        c \in classLists,
        x \in { <<>> } \cup { <<row>> : row \in UNION { [1..n -> PlainCells] : n \in 1..MaxCells } } }

BlockNodes(classLists, childLists) ==
    { [tag |-> "div", classes |-> c, text |-> "t", children |-> ch] :
        c \in classLists, ch \in childLists }

\* the elements inside the processed element: a table or a block without
\* elements of its own, marked or not
InnerNodes == TableNodes(ClassLists) \cup BlockNodes(ClassLists, { <<>> })

HasClass(node, name) == \E k \in 1..Len(node.classes) : node.classes[k] = name

Inner(node) == IF node.tag = "table" THEN <<>> ELSE node.children

\* the marker classes as the controller hands them out: the outline class is on
\* the hovered element alone, and the hovered element is processed only while
\* nothing is selected
MarkersPossible(node) ==
    /\ Cardinality({k \in 1..Len(Inner(node)) : HasClass(Inner(node)[k], Outline)})
         + (IF HasClass(node, Outline) THEN 1 ELSE 0) <= 1
    /\ ~HasClass(node, Multi)
         => \A k \in 1..Len(Inner(node)) : Inner(node)[k].classes = <<>>

\* the processed element, selected or hovered: a table, or a block with at most
\* one element inside
\* how many rows a selected table has, and how many cells a row of it
MaxRows == 2

MaxRowCells == 2

\* the cells of a selected table: plain, or with a line break, a preformatted
\* block or a table of its own inside
RichCells ==
    PlainCells \cup { [text |-> "x", span |-> FALSE, child |-> c] : c \in {"br", "pre", "table"} }

RichRows == UNION { [1..n -> RichCells] : n \in 0..MaxRowCells }

\* a selected table with up to MaxRows rows
RichTables ==
    { [tag |-> "table", classes |-> <<Multi>>, rows |-> x] :
        x \in UNION { [1..n -> RichRows] : n \in 0..MaxRows } }

ConvNodes ==
    RichTables \cup
    { node \in TableNodes(MarkedClassLists)
                \cup BlockNodes(MarkedClassLists, { <<>> } \cup { <<n>> : n \in InnerNodes }) :
        MarkersPossible(node) }

InitConvert ==
    /\ convIn \in { [node |-> n, site |-> w, throws |-> t] :
                       n \in ConvNodes, w \in {"youtube", "other"}, t \in BOOLEAN }
    /\ convOut = <<>>
    /\ convPc = "in"
    /\ IdleNorm
    /\ IdleLinks
    /\ IdleArea
    /\ IdleImage
    /\ IdleSide
    /\ InitCtl

Convert ==
    /\ convPc = "in"
    /\ convOut' = convertElement(convIn.node, convIn.site, convIn.throws)
    /\ convPc' = "done"
    /\ UNCHANGED <<convIn, normVars, linkVars, areaVars, imageVars, sideVars, ctlVars>>

NextConvert == Convert

SpecConvert == InitConvert /\ [][NextConvert]_vars

\* C16: the text convertToMarkdown returns holds neither marker class name.
C16_NoMarkerInOutput ==
    (convPc = "done" /\ ~convOut.null)
        => \A k \in 1..Len(convOut.md) : convOut.md[k] \notin {Outline, Multi}

(***************************************************************************)
(* SpecRender: markdownToHtml on texts made of up to MaxRenderChunks       *)
(* pieces, with marked there, throwing, or absent.                         *)
(***************************************************************************)
MaxRenderChunks == 3

\* a table of one cell
PlainTable == <<"<table>", "<tr>", "<td>", "x", "</td>", "</tr>", "</table>">>

\* a table whose cell has an attribute and a tag that are not allowed
RichTable == <<"<table>", "<tr>", "<td id>", "<b>", "y", "</b>", "</td>", "</tr>", "</table>">>

\* no table element, yet a match of /<table[\s\S]*?<\/table>/
NoTable == <<"<tablet>", "</table>">>

TableFragments == {PlainTable, RichTable, NoTable}

RenderChunks ==
    TableFragments \cup { <<"a">>, <<"&">>, <<" ", "#", " ">>, tableToken(0), Fence, <<NL>> }

RenderTexts ==
    { Concat(cs) : cs \in UNION { [1..n -> RenderChunks] : n \in 0..MaxRenderChunks } }

InitRender ==
    /\ renderIn \in [markdown : RenderTexts, renderer : Renderers]
    /\ renderOut = <<>>
    /\ renderPc = "in"
    /\ IdlePanel
    /\ IdleGeom
    /\ IdleBackground
    /\ IdleCapture
    /\ IdleInject
    /\ IdleLimit
    /\ IdleNorm
    /\ IdleLinks
    /\ IdleArea
    /\ IdleImage
    /\ IdleConv
    /\ InitCtl

Render ==
    /\ renderPc = "in"
    /\ renderOut' = markdownToHtml(renderIn.markdown, renderIn.renderer)
    /\ renderPc' = "done"
    /\ UNCHANGED <<renderIn, exceptRender, ctlVars>>

NextRender == Render

SpecRender == InitRender /\ [][NextRender]_vars

(***************************************************************************)
(* SpecPreview: the preview panel (src/content.js 445-608, 631-665) shown, *)
(* edited, switched between its tabs and closed.                           *)
(***************************************************************************)
Tabs == {"render", "edit", "links"}

\* the links container: a notice when there is no link, else one entry a link
NoLinks == <<"empty">>

linksPane(md) ==
    LET found == SelectSeq(extractLinksFromMarkdown(md), LAMBDA link : Trim(link) # <<>>)
    IN  IF found = <<>> THEN NoLinks ELSE found

\* updatePreviewContent with previewState.markdown = md and the panel there
updatePreviewContent_keepsLinks(md, renderer) ==
    /\ textareaValue' = md
    /\ renderPane' = markdownToHtml(md, renderer)
    /\ UNCHANGED linksContainer

updatePreviewContent(md, renderer) ==
    /\ textareaValue' = md
    /\ renderPane' = markdownToHtml(md, renderer)
    /\ linksContainer' = linksPane(md)

setPreviewTab(tabName) ==
    /\ activeTab' = tabName
    /\ activeTabButton' = tabName
    /\ visiblePane' = tabName

\* everything of the controller but the panel and its text
ctlRest ==
    <<modeVars, areaStartPos, areaEndPos, isDragging, wasDragged, pointerAt, pressed,
      altKey, resetTimers, pending, sessions, toast>>

\* showPreviewPanel(md); the panel is created when there is none
showPreviewPanel(md, renderer) ==
    /\ previewMarkdown' = md
    /\ previewPanel' = TRUE
    /\ updatePreviewContent(md, renderer)
    /\ setPreviewTab(IF activeTab = "" THEN "render" ELSE activeTab)
    /\ UNCHANGED <<exceptPanel, ctlRest>>

\* the user changes the text of the edit pane: the input listener
InputText(value, renderer) ==
    /\ previewPanel
    /\ visiblePane = "edit"
    /\ value # textareaValue
    /\ previewMarkdown' = value
    /\ updatePreviewContent(value, renderer)
    /\ UNCHANGED <<previewPanel, activeTab, activeTabButton, visiblePane, exceptPanel, ctlRest>>

\* a click on a tab button
ClickTab(target) ==
    /\ previewPanel
    /\ setPreviewTab(target)
    /\ UNCHANGED <<previewPanel, previewMarkdown, textareaValue, renderPane, linksContainer,
                   exceptPanel, ctlRest>>

\* a click on the close button (previewImageUrl is never set)
ClosePanel ==
    /\ previewPanel
    /\ previewPanel' = FALSE
    /\ textareaValue' = <<>>
    /\ renderPane' = <<>>
    /\ linksContainer' = <<>>
    /\ activeTabButton' = "none"
    /\ visiblePane' = "none"
    /\ UNCHANGED <<previewMarkdown, activeTab, exceptPanel, ctlRest>>

MaxPreviewChunks == 2

PreviewChunks == { <<"a">>, UrlA \o <<" ">>, PlainTable, tableToken(0) }

PreviewTexts ==
    { Concat(cs) : cs \in UNION { [1..n -> PreviewChunks] : n \in 0..MaxPreviewChunks } }

InitPreview ==
    /\ IdlePanel
    /\ IdleRender
    /\ IdleGeom
    /\ IdleBackground
    /\ IdleCapture
    /\ IdleInject
    /\ IdleLimit
    /\ IdleNorm
    /\ IdleLinks
    /\ IdleArea
    /\ IdleImage
    /\ IdleConv
    /\ InitCtl

NextPreview ==
    \/ \E md \in PreviewTexts, renderer \in Renderers : showPreviewPanel(md, renderer)
    \/ \E value \in PreviewTexts, renderer \in Renderers : InputText(value, renderer)
    \/ \E target \in Tabs : ClickTab(target)
    \/ ClosePanel

SpecPreview == InitPreview /\ [][NextPreview]_vars

(***************************************************************************)
(* SpecGeometry: the preview panel dragged by its header and resized by    *)
(* its corner handles (src/content.js 480-560).                            *)
(***************************************************************************)
\* the least width and height a resize gives, and the margin kept to the
\* edges of the window
MinPanelWidth == 360

MinPanelHeight == 260

PanelMargin == 12

\* Math.max(12, Math.min(value, limit)) without the lower bound
clampToWindow_upperOnly(value, limit) == Min(value, limit)

\* Math.max(12, Math.min(value, limit))
clampToWindow(value, limit) == Max(PanelMargin, Min(value, limit))

\* the mousemove listener's branch for isPreviewDragging
dragged(rect, p) ==
    LET maxX == innerSize[1] - Width(rect)
        maxY == innerSize[2] - Height(rect)
        nextLeft == clampToWindow(p[1] - previewDragOffset[1], maxX - PanelMargin)
        nextTop == clampToWindow(p[2] - previewDragOffset[2], maxY - PanelMargin)
    IN  <<nextLeft, nextTop, Width(rect), Height(rect)>>

\* handle.includes(c) for the handles tl, tr, bl, br
handleIncludes(handle, c) ==
    CASE c = "t" -> handle \in {"tl", "tr"}
      [] c = "b" -> handle \in {"bl", "br"}
      [] c = "l" -> handle \in {"tl", "bl"}
      [] c = "r" -> handle \in {"tr", "br"}

\* the mousemove listener's branch for isPreviewResizing
resized(p) ==
    LET from == previewResizeStart
        deltaX == p[1] - from.x
        deltaY == p[2] - from.y
        nextWidth ==
            IF handleIncludes(from.handle, "l") THEN Max(MinPanelWidth, from.width - deltaX)
            ELSE IF handleIncludes(from.handle, "r")
                 THEN Max(MinPanelWidth, from.width + deltaX)
            ELSE from.width
        nextHeight ==
            IF handleIncludes(from.handle, "t") THEN Max(MinPanelHeight, from.height - deltaY)
            ELSE IF handleIncludes(from.handle, "b")
                 THEN Max(MinPanelHeight, from.height + deltaY)
            ELSE from.height
        movedLeft == IF handleIncludes(from.handle, "l") THEN from.left + deltaX ELSE from.left
        movedTop == IF handleIncludes(from.handle, "t") THEN from.top + deltaY ELSE from.top
        maxLeft == innerSize[1] - nextWidth - PanelMargin
        maxTop == innerSize[2] - nextHeight - PanelMargin
    IN  <<clampToWindow(movedLeft, maxLeft), clampToWindow(movedTop, maxTop),
          nextWidth, nextHeight>>

\* the window sizes, the rectangles the style sheet gives a new panel, the
\* places of the pointer and where in the header the pointer goes down
WindowSizes == { <<13, 13>>, <<500, 400>>, <<1000, 800>> }

NewPanelRects == { <<12, 12, 300, 200>>, <<100, 50, 420, 320>> }

PointerPlaces == { <<x, y>> : x \in {0, 300, 700}, y \in {0, 300, 700} }

HeaderOffsets == { <<0, 0>>, <<50, 10>> }

Handles == {"tl", "tr", "bl", "br"}

\* the corner of the rectangle the handle sits on
cornerOf(rect, handle) ==
    <<IF handleIncludes(handle, "l") THEN Left(rect) ELSE Left(rect) + Width(rect),
      IF handleIncludes(handle, "t") THEN Top(rect) ELSE Top(rect) + Height(rect)>>

\* how many drags and resizes are followed
MaxGrabs == 2

\* showPreviewPanel creates the panel, in a window of some size
OpenPanel(size, rect) ==
    /\ ~previewPanel
    /\ previewPanel' = TRUE
    /\ innerSize' = size
    /\ panelRect' = rect
    /\ UNCHANGED <<isPreviewDragging, previewDragOffset, isPreviewResizing,
                   previewResizeStart, grabs, previewMarkdown, exceptGeom, ctlRest>>

\* mousedown of the primary button on the header
PressHeader(offset) ==
    /\ previewPanel
    /\ grabs < MaxGrabs
    /\ grabs' = grabs + 1
    /\ isPreviewDragging' = TRUE
    /\ previewDragOffset' = offset
    /\ UNCHANGED <<innerSize, panelRect, isPreviewResizing, previewResizeStart,
                   previewPanel, previewMarkdown, exceptGeom, ctlRest>>

\* mousedown of the primary button on a resize handle
PressHandle(handle) ==
    /\ previewPanel
    /\ grabs < MaxGrabs
    /\ grabs' = grabs + 1
    /\ isPreviewResizing' = TRUE
    /\ previewResizeStart' =
           [x |-> cornerOf(panelRect, handle)[1], y |-> cornerOf(panelRect, handle)[2],
            width |-> Width(panelRect), height |-> Height(panelRect),
            left |-> Left(panelRect), top |-> Top(panelRect), handle |-> handle]
    /\ UNCHANGED <<innerSize, panelRect, isPreviewDragging, previewDragOffset,
                   previewPanel, previewMarkdown, exceptGeom, ctlRest>>

\* the mousemove listener of the document
MovePointer(p) ==
    /\ previewPanel
    /\ isPreviewDragging \/ isPreviewResizing
    /\ panelRect' =
           LET afterDrag == IF isPreviewDragging THEN dragged(panelRect, p) ELSE panelRect
           IN  IF isPreviewResizing THEN resized(p) ELSE afterDrag
    /\ UNCHANGED <<innerSize, isPreviewDragging, previewDragOffset, isPreviewResizing,
                   previewResizeStart, grabs, previewPanel, previewMarkdown, exceptGeom,
                   ctlRest>>

\* the mouseup listener of the document
ReleasePointer ==
    /\ previewPanel
    /\ isPreviewDragging \/ isPreviewResizing
    /\ isPreviewDragging' = FALSE
    /\ isPreviewResizing' = FALSE
    /\ UNCHANGED <<innerSize, panelRect, previewDragOffset, previewResizeStart, grabs,
                   previewPanel, previewMarkdown, exceptGeom, ctlRest>>

InitGeometry ==
    /\ IdleGeom
    /\ IdlePanel
    /\ IdleRender
    /\ IdleBackground
    /\ IdleCapture
    /\ IdleInject
    /\ IdleLimit
    /\ IdleNorm
    /\ IdleLinks
    /\ IdleArea
    /\ IdleImage
    /\ IdleConv
    /\ InitCtl

NextGeometry ==
    \/ \E size \in WindowSizes, rect \in NewPanelRects : OpenPanel(size, rect)
    \/ \E offset \in HeaderOffsets : PressHeader(offset)
    \/ \E handle \in Handles : PressHandle(handle)
    \/ \E p \in PointerPlaces : MovePointer(p)
    \/ ReleasePointer

SpecGeometry == InitGeometry /\ [][NextGeometry]_vars

(***************************************************************************)
(* SpecBackground: the onMessage listener of the background script         *)
(* (src/unnamed/part_000 48-86) with up to MaxRequests messages in flight. *)
(* A request holds the message, where its handling stands (pc), the        *)
(* arguments sendResponse was called with so far, and how often the        *)
(* capture or the fetch was issued.                                        *)
(***************************************************************************)
MaxRequests == 2

MessageTypes == {"mdcp-capture-visible", "mdcp-fetch-image", "other"}

DataUri == [kind |-> "dataUrl", value |-> "data"]

\* { dataUrl: reader.result } after a failed read: reader.result is null
NullData == [kind |-> "dataUrl", value |-> "null"]

ErrorString == [kind |-> "error", value |-> "message"]

\* the listener up to its return; tab: the sender has a tab
onMessage(type, url, tab) ==
    IF type = "mdcp-capture-visible"
    THEN IF tab
         THEN [type |-> type, url |-> url, pc |-> "capturing", responses |-> <<>>, issued |-> 1]
         ELSE \* sender.tab.windowId throws, caught
              [type |-> type, url |-> url, pc |-> "done", responses |-> <<ErrorString>>,
               issued |-> 0]
    ELSE IF type = "mdcp-fetch-image" /\ url
         THEN [type |-> type, url |-> url, pc |-> "fetching", responses |-> <<>>, issued |-> 1]
         ELSE [type |-> type, url |-> url, pc |-> "ignored", responses |-> <<>>, issued |-> 0]

Receive(type, url, tab) ==
    /\ Len(requests) < MaxRequests
    /\ requests' = Append(requests, onMessage(type, url, tab))
    /\ UNCHANGED <<exceptBg, ctlVars>>

\* request k goes on: sendResponse is called with each of sent, in order
Proceed(k, pc, sent) ==
    requests' = [requests EXCEPT ![k].pc = pc, ![k].responses = @ \o sent]

\* the callback of chrome.tabs.captureVisibleTab
CaptureCallback(k, lastError) ==
    /\ k \in 1..Len(requests)
    /\ requests[k].pc = "capturing"
    /\ Proceed(k, "done", IF lastError THEN <<ErrorString>> ELSE <<DataUri>>)
    /\ UNCHANGED <<exceptBg, ctlVars>>

\* await fetch(message.url): a response that is ok, one that is not, a rejection
FetchSettles(k, outcome) ==
    /\ k \in 1..Len(requests)
    /\ requests[k].pc = "fetching"
    /\ IF outcome = "ok" THEN Proceed(k, "blob", <<>>)
       ELSE Proceed(k, "done", <<ErrorString>>)
    /\ UNCHANGED <<exceptBg, ctlVars>>

\* await res.blob(), then reader.readAsDataURL(blob)
BlobSettles(k, ok) ==
    /\ k \in 1..Len(requests)
    /\ requests[k].pc = "blob"
    /\ IF ok THEN Proceed(k, "reading", <<>>) ELSE Proceed(k, "done", <<ErrorString>>)
    /\ UNCHANGED <<exceptBg, ctlVars>>

\* the read fails: the FileReader fires error and then loadend, and both
\* listeners call sendResponse
readFails == <<ErrorString, NullData>>

\* the read ends: the FileReader fires load (no listener) and loadend, or error
\* and loadend
ReaderEnds(k, ok) ==
    /\ k \in 1..Len(requests)
    /\ requests[k].pc = "reading"
    /\ Proceed(k, "done", IF ok THEN <<DataUri>> ELSE readFails)
    /\ UNCHANGED <<exceptBg, ctlVars>>

InitBackground ==
    /\ IdleBackground
    /\ IdleGeom
    /\ IdlePanel
    /\ IdleRender
    /\ IdleCapture
    /\ IdleInject
    /\ IdleLimit
    /\ IdleNorm
    /\ IdleLinks
    /\ IdleArea
    /\ IdleImage
    /\ IdleConv
    /\ InitCtl

NextBackground ==
    \/ \E type \in MessageTypes, url \in BOOLEAN, tab \in BOOLEAN : Receive(type, url, tab)
    \/ \E k \in 1..MaxRequests, lastError \in BOOLEAN : CaptureCallback(k, lastError)
    \/ \E k \in 1..MaxRequests, outcome \in {"ok", "notOk", "rejects"} : FetchSettles(k, outcome)
    \/ \E k \in 1..MaxRequests, ok \in BOOLEAN : BlobSettles(k, ok)
    \/ \E k \in 1..MaxRequests, ok \in BOOLEAN : ReaderEnds(k, ok)

SpecBackground == InitBackground /\ [][NextBackground]_vars

(***************************************************************************)
(* SpecCapture: one call of captureArea (src/content.js 694-787), a step   *)
(* for each await. capture holds the area, the loop variables cx and cy,   *)
(* where the call stands (pc), the chunks requested and the answers so     *)
(* far, the capture requests not yet answered, the chunks drawn, the fixed *)
(* elements that are hidden, and where the window is scrolled to.          *)
(***************************************************************************)
CaptureBoxes ==
    { [x |-> x, y |-> 0, width |-> w, height |-> h] :
        x \in {0, 5}, w \in {5, 15, 25}, h \in {5, 15} }

\* the for statements' updates: the next cx in the row, or the start of the
\* next row, top to bottom instead
nextChunk_columnFirst(box, cx, cy) ==
    IF cy + Height(ViewportRect) < box.y + box.height
    THEN <<cx, cy + Height(ViewportRect)>>
    ELSE <<cx + Width(ViewportRect), box.y>>

\* the for statements' updates: the next cx in the row, or the start of the
\* next row
nextChunk(box, cx, cy) ==
    IF cx + Width(ViewportRect) < box.x + box.width
    THEN <<cx + Width(ViewportRect), cy>>
    ELSE <<box.x, cy + Height(ViewportRect)>>

\* the fixed and sticky elements of the page
FixedElements == {"header"}

\* where the window can be scrolled to when captureArea is called
ScrollPositions == { <<0, 0>>, <<0, 5>> }

\* "Restore state" after the loops: the hidden elements are shown and lose
\* their tag, window.scrollTo(originalScroll.x, originalScroll.y)
restoreState(c) == [c EXCEPT !.hidden = {}, !.scroll = c.originalScroll]

\* the call goes on with the next chunk, or leaves the loops
continueLoop(c) ==
    LET next == nextChunk(c.box, c.cx, c.cy)
    IN  IF next[1] < c.box.x + c.box.width /\ next[2] < c.box.y + c.box.height
        THEN [c EXCEPT !.cx = next[1], !.cy = next[2], !.pc = "scroll"]
        ELSE restoreState([c EXCEPT !.pc = "encode"])

\* captureArea(x, y, width, height) up to the loops
StartCapture(box, scroll) ==
    /\ capture = <<>>
    /\ capture' =
           LET c == [box |-> box, cx |-> box.x, cy |-> box.y, pc |-> "scroll",
                     requested |-> <<>>, responses |-> <<>>, outstanding |-> 0,
                     drawn |-> {}, blob |-> "none",
                     originalScroll |-> scroll, scroll |-> scroll,
                     hidden |-> FixedElements]
           IN  IF box.x < box.x + box.width /\ box.y < box.y + box.height
               THEN c
               ELSE restoreState([c EXCEPT !.pc = "encode"])
    /\ UNCHANGED <<exceptCap, ctlVars>>

Running(pc) == capture # <<>> /\ capture.pc = pc

\* window.scrollTo(cx, cy)
ScrollTo ==
    /\ Running("scroll")
    /\ capture' = [capture EXCEPT !.pc = "settle", !.scroll = <<capture.cx, capture.cy>>]
    /\ UNCHANGED <<exceptCap, ctlVars>>

\* the two animation frames and the 250 ms are over:
\* chrome.runtime.sendMessage({type: 'mdcp-capture-visible'})
RequestChunk ==
    /\ Running("settle")
    /\ capture' = [capture EXCEPT !.pc = "request",
                                  !.requested = Append(@, <<capture.cx, capture.cy>>),
                                  !.outstanding = @ + 1]
    /\ UNCHANGED <<exceptCap, ctlVars>>

\* the request is answered
ChunkResponse(response) ==
    /\ Running("request")
    /\ capture' =
           LET got == [capture EXCEPT !.responses = Append(@, response),
                                      !.outstanding = @ - 1]
           IN  CASE response = "throws" -> [got EXCEPT !.pc = "done", !.blob = "null"]
                 [] response = "data" -> [got EXCEPT !.pc = "load"]
                 [] OTHER -> continueLoop(got)
    /\ UNCHANGED <<exceptCap, ctlVars>>

\* img.onload or img.onerror, then ctx.drawImage
ImageLoaded ==
    /\ Running("load")
    /\ capture' = continueLoop([capture EXCEPT !.drawn = @ \cup {<<capture.cx, capture.cy>>}])
    /\ UNCHANGED <<exceptCap, ctlVars>>

\* after the loops: canvas.toBlob
Encoded(ok) ==
    /\ Running("encode")
    /\ capture' = [capture EXCEPT !.pc = "done", !.blob = IF ok THEN "png" ELSE "null"]
    /\ UNCHANGED <<exceptCap, ctlVars>>

InitCapture ==
    /\ IdleCapture
    /\ IdleBackground
    /\ IdleGeom
    /\ IdlePanel
    /\ IdleRender
    /\ IdleInject
    /\ IdleLimit
    /\ IdleNorm
    /\ IdleLinks
    /\ IdleArea
    /\ IdleImage
    /\ IdleConv
    /\ InitCtl

NextCapture ==
    \/ \E box \in CaptureBoxes, scroll \in ScrollPositions : StartCapture(box, scroll)
    \/ ScrollTo
    \/ RequestChunk
    \/ \E response \in Responses : ChunkResponse(response)
    \/ ImageLoaded
    \/ \E ok \in BOOLEAN : Encoded(ok)

SpecCapture == InitCapture /\ [][NextCapture]_vars

(***************************************************************************)
(* Spec: the selection controller driven by the user, the timers and the   *)
(* clipboard.                                                              *)
(***************************************************************************)
Init ==
    /\ IdleSide
    /\ InitCtl
    /\ IdleNorm
    /\ IdleLinks
    /\ IdleArea
    /\ IdleImage
    /\ IdleConv

Next ==
    \/ \E t \in Targets : MouseOver(t)
    \/ PressButton
    \/ \E p \in DownPoints : PressArea(p)
    \/ \E p \in MovePoints, far \in BOOLEAN : Move(p, far)
    \/ \E shift \in BOOLEAN, outcome \in Outcomes : ReleaseButton(shift, outcome)
    \/ ReleasePage
    \/ PlainClick
    \/ \E shift \in BOOLEAN : RightClickButton(shift)
    \/ KeyDownEscape
    \/ \E outcomes \in ConversionOutcomes : KeyDownEnter(outcomes)
    \/ KeyDownAlt
    \/ KeyUpAlt
    \/ TimerFires
    \/ \E i \in 1..MaxIdlePending, ok \in BOOLEAN : SettleText(i, ok)
    \/ \E i \in 1..MaxIdlePending, result \in {"ok", "capture", "write"} :
          SettleImage(i, result)

Spec == Init /\ [][Next]_vars

\* C1: in Idle, whatever way the session ended, no element carries
\* mdcp-selected-element-outline or mdcp-multi-selected, and neither the overlay
\* nor the selection box exists.
C1_IdleClean ==
    ~isSelectionMode =>
        /\ outlined = {}
        /\ multiSelected = {}
        /\ ~overlay
        /\ ~selectionBox

\* Idle after a session in which two elements were selected and committed
C1_Witness ==
    /\ ~isSelectionMode
    /\ sessions > 0
    /\ previewPanel
    /\ Len(previewMarkdown) > 1

\* an area is drawn and the primary button goes up
DragEnds == ReleasePage /\ isSelectionMode /\ isDrawingArea

\* C4: the end of a drag whose rectangle has no width or no height adds nothing
\* to the selection and shows the toast for an area without elements.
C4_DegenerateDragAddsNothing ==
    [][(/\ DragEnds
        /\ \/ areaStartPos[1] = areaEndPos[1]
           \/ areaStartPos[2] = areaEndPos[2])
       => /\ selectedElements' = selectedElements
          /\ toast' = Toast("noElementsInArea")]_vars

\* Enter is pressed in selection mode
EnterPressed == \E outcomes \in ConversionOutcomes : KeyDownEnter(outcomes)

\* C8 as claimed: Enter with an empty selection shows the toast for no selected
\* element and starts no clipboard write.
C8_Original ==
    [][(selectedElements = <<>> /\ EnterPressed)
       => (toast' = Toast("noneSelected") /\ pending' = pending)]_vars

\* C8 as amended: Enter with an empty selection and no hovered element shows the
\* toast for no selected element and starts no clipboard write.
C8_NothingToCopy ==
    [][(selectedElements = <<>> /\ currentElement = 0 /\ EnterPressed)
       => (toast' = Toast("noneSelected") /\ pending' = pending)]_vars

\* Enter was pressed with nothing selected and nothing hovered
C8_Witness ==
    /\ isSelectionMode
    /\ selectedElements = <<>>
    /\ currentElement = 0
    /\ toast = Toast("noneSelected")
    /\ pending = <<>>

\* q without x, the rest in order
Without(q, x) ==
    LET keep(y) == y # x
    IN  SelectSeq(q, keep)

\* the click removed element: it left the selection, the others stay in order, it
\* carries no marker class and the toast shows one element less
Deselected(element) ==
    /\ selectedElements' = Without(selectedElements, element)
    /\ element \notin outlined' \cup multiSelected'
    /\ multiSelected' = multiSelected \ {element}
    /\ toast' = CountToast("deselected", Len(selectedElements) - 1)

\* C9 as claimed: a plain click on an element of the selection removes exactly
\* that element, takes its marker classes away and shows the count less one.
C9_Original ==
    [][(PlainClick /\ InSeq(selectedElements, pointerAt)) => Deselected(pointerAt)]_vars

\* C9 as amended: a plain click that is not ignored (none within 100 ms of an area
\* drag) while the hovered element is in the selection removes exactly the hovered
\* element, takes its marker classes away and shows the count less one.
C9_ClickDeselectsHovered ==
    [][(/\ PlainClick
        /\ ~justFinishedAreaSelection
        /\ currentElement # 0
        /\ InSeq(selectedElements, currentElement))
       => Deselected(currentElement)]_vars

\* one of two selected elements was clicked away
C9_Witness ==
    /\ isSelectionMode
    /\ toast = CountToast("deselected", 1)
    /\ Len(selectedElements) = 1
    /\ currentElement \notin ElementsOf(selectedElements)

\* the elements a commit processes
Processed == IF selectedElements # <<>> THEN selectedElements ELSE <<currentElement>>

\* the conversions of elements that satisfy keep, in order
Conversions(elements, outcomes, keep(_)) ==
    LET kept == SelectSeq(elements, keep)
    IN  [k \in 1..Len(kept) |->
            IF outcomes[kept[k]] = "text" THEN ElementText[kept[k]] ELSE <<>>]

CommitOf(texts) == [kind |-> "commit", text |-> Join(texts, <<NL, NL>>)]

\* C10 as claimed: when the conversion throws for some but not all of the
\* processed elements, the conversions of the others, joined, are written to the
\* clipboard.
C10_Original ==
    [][\A outcomes \in ConversionOutcomes :
          LET converted(e) == outcomes[e] # "throws"
          IN  (/\ ~copyAsImage
               /\ selectedElements # <<>>
               /\ \E e \in ElementsOf(Processed) : converted(e)
               /\ \E e \in ElementsOf(Processed) : ~converted(e)
               /\ KeyDownEnter(outcomes))
              => pending' = Append(pending,
                                   CommitOf(Conversions(Processed, outcomes, converted)))
      ]_vars

\* C10 as amended: a Markdown commit skips the conversions that threw and those
\* that gave the empty text; when one is left, the rest, joined in order, is
\* written to the clipboard, and otherwise nothing is written and the toast for a
\* failed conversion is shown.
C10_SkipsFailedAndEmpty ==
    [][\A outcomes \in ConversionOutcomes :
          LET nonEmpty(e) == outcomes[e] = "text"
              texts == IF selectedElements # <<>> \/ currentElement # 0
                       THEN Conversions(Processed, outcomes, nonEmpty)
                       ELSE <<>>
          IN  (/\ ~copyAsImage
               /\ (selectedElements # <<>> \/ currentElement # 0)
               /\ KeyDownEnter(outcomes))
              => IF texts # <<>>
                 THEN pending' = Append(pending, CommitOf(texts))
                 ELSE pending' = pending /\ toast' = Toast("convertFailed")
      ]_vars

\* two elements are selected and the write in flight holds the text of the second
\* alone: the first was skipped
C10_Witness ==
    /\ isSelectionMode
    /\ Len(selectedElements) = 2
    /\ \E k \in 1..Len(pending) :
          pending[k] = CommitOf(<<ElementText[selectedElements[2]]>>)

\* C11 as claimed: Escape in selection mode leaves the controller in Idle.
C11_Original ==
    [][KeyDownEscape => ~isSelectionMode']_vars

\* C11 as amended: Escape in selection mode while no area is drawn leaves the
\* controller in Idle; while an area is drawn it ends the drawing and the
\* controller stays in selection mode with its selection.
C11_EscapeLeavesUnlessDrawing ==
    [][KeyDownEscape =>
          IF isDrawingArea
          THEN /\ isSelectionMode' /\ ~isDrawingArea' /\ ~selectionBox'
               /\ selectedElements' = selectedElements
          ELSE ~isSelectionMode' /\ ~listening']_vars

\* Escape ended a session
C11_Witness ==
    /\ ~isSelectionMode
    /\ ~listening
    /\ toast = Toast("modeCancelled")

(***************************************************************************)
(* SpecLive: the controller when the browser settles the clipboard write   *)
(* of a commit (navigator.clipboard.writeText resolves or rejects),        *)
(* whatever else is started and settled meanwhile.                         *)
(***************************************************************************)
\* the commit pending[i] ends, the clipboard having taken it (ok) or not
CommitSettles(i, ok) ==
    /\ i \in 1..Len(pending)
    /\ pending[i].kind = "commit"
    /\ SettleText(i, ok)

SpecLive ==
    /\ Spec
    /\ WF_vars(\E i \in 1..MaxIdlePending, ok \in BOOLEAN : CommitSettles(i, ok))

\* Idle with nothing selected and the listeners of the selection mode removed
IdleReleased == ~isSelectionMode /\ selectedElements = <<>> /\ ~listening

CommitPending == \E k \in 1..Len(pending) : pending[k].kind = "commit"

\* C12: Enter with an element to process leaves the controller in Idle, nothing
\* selected and the listeners removed, at once (an image copy, or no conversion
\* left to write) or with the write of the commit pending; and whenever that
\* write is pending, Idle with nothing selected and the listeners removed
\* follows, whether the write succeeds or fails.
C12_CommitReachesIdle ==
    /\ [][((selectedElements # <<>> \/ currentElement # 0) /\ EnterPressed)
          => (IdleReleased' \/ CommitPending')]_vars
    /\ (CommitPending ~> IdleReleased)

\* the write of a commit failed and the controller is in Idle
C12_Witness ==
    /\ IdleReleased
    /\ sessions > 0
    /\ pending = <<>>
    /\ ~previewPanel
    /\ toast = Toast("copyFailed")

\* a click, not a drag, of the primary button on the entry button without Shift
ClickButton == ~wasDragged /\ \E outcome \in Outcomes : ReleaseButton(FALSE, outcome)

\* C13: copyAsImage is false in Idle; entering the selection mode by a click on
\* the entry button leaves it false and by a right click sets it; it keeps its
\* value as long as the selection mode lasts.
C13_CopyTargetFixed ==
    /\ [](~isSelectionMode => ~copyAsImage)
    /\ [][(~isSelectionMode /\ ClickButton) => (isSelectionMode' /\ ~copyAsImage')]_vars
    /\ [][(~isSelectionMode /\ RightClickButton(FALSE))
          => (isSelectionMode' /\ copyAsImage')]_vars
    /\ [][(isSelectionMode /\ isSelectionMode') => copyAsImage' = copyAsImage]_vars

\* an image session with two elements selected
C13_Witness ==
    /\ isSelectionMode
    /\ copyAsImage
    /\ Len(selectedElements) = 2

\* C14 as claimed: a Markdown commit writes the conversions that did not throw,
\* in the order of the selection, joined by a blank line, and the Preview Panel
\* then shows that text.
C14_Original ==
    /\ [][\A outcomes \in ConversionOutcomes :
             LET converted(e) == outcomes[e] # "throws"
             IN  (/\ ~copyAsImage
                  /\ selectedElements # <<>>
                  /\ \E e \in ElementsOf(Processed) : converted(e)
                  /\ KeyDownEnter(outcomes))
                 => pending' = Append(pending,
                                      CommitOf(Conversions(Processed, outcomes, converted)))
         ]_vars
    /\ [][\A i \in 1..MaxIdlePending, ok \in BOOLEAN :
             CommitSettles(i, ok)
             => (previewPanel' /\ previewMarkdown' = pending[i].text)]_vars

\* C14 as amended: a Markdown commit writes the conversions that neither threw
\* nor gave the empty text, in the order of the selection, joined by a blank
\* line, when there is one; when the clipboard has taken the text the Preview
\* Panel shows it, and when it has not the panel is left as it was.
C14_CommitText ==
    /\ [][\A outcomes \in ConversionOutcomes :
             LET nonEmpty(e) == outcomes[e] = "text"
             IN  (/\ ~copyAsImage
                  /\ selectedElements # <<>>
                  /\ \E e \in ElementsOf(Processed) : nonEmpty(e)
                  /\ KeyDownEnter(outcomes))
                 => pending' = Append(pending,
                                      CommitOf(Conversions(Processed, outcomes, nonEmpty)))
         ]_vars
    /\ [][\A i \in 1..MaxIdlePending, ok \in BOOLEAN :
             CommitSettles(i, ok)
             => IF ok
                THEN previewPanel' /\ previewMarkdown' = pending[i].text
                ELSE UNCHANGED <<previewPanel, previewMarkdown>>]_vars

\* the Preview Panel shows the commit of element 3 and element 1, selected in
\* that order
C14_Witness ==
    /\ previewPanel
    /\ previewMarkdown = ElementText[3] \o <<NL, NL>> \o ElementText[1]
    /\ toast = Toast("copied")

\* C15: at most one clipboard write or capture started by the extension is
\* pending at any time.
C15_OnePending == Len(pending) <= 1

\* a click or a right click on the entry button with Shift held
ShiftGesture ==
    \/ ~wasDragged /\ \E outcome \in Outcomes : ReleaseButton(TRUE, outcome)
    \/ RightClickButton(TRUE)

\* C17: a click or a right click on the entry button with Shift held changes
\* neither the mode nor the selection nor the hovered element nor copyAsImage,
\* in Idle and in selection mode.
C17_ShiftGestureFrame ==
    [][ShiftGesture
       => UNCHANGED <<isSelectionMode, selectedElements, currentElement, copyAsImage,
                      listening, outlined, multiSelected>>]_vars

\* a full-page copy was started in selection mode with an element selected and
\* another hovered
C17_Witness ==
    /\ isSelectionMode
    /\ selectedElements # <<>>
    /\ currentElement # 0
    /\ toast \in {Toast("pageCreating"), Toast("pageImageCreating")}
    /\ pending # <<>>

\* C20: a Markdown commit in which the conversion of some element throws shows
\* the toast for a failed conversion.
C20_FailureToast ==
    [][\A outcomes \in ConversionOutcomes :
          (/\ ~copyAsImage
           /\ (selectedElements # <<>> \/ currentElement # 0)
           /\ KeyDownEnter(outcomes)
           /\ \E e \in ElementsOf(Processed) : outcomes[e] = "throws")
          => toast' = Toast("convertFailed")]_vars

Occurs(s, p) == \E i \in 1..Len(s) : StartsWithAt(s, i, p)

\* how often the symbol c is in s
RECURSIVE CountOf(_, _)
CountOf(s, c) ==
    IF s = <<>> THEN 0 ELSE (IF Head(s) = c THEN 1 ELSE 0) + CountOf(Tail(s), c)

\* the sanitized tables of the text of renderIn, in the order of the text
TablesOf(md) == replaceTables(md, 1, <<>>, <<>>).tableTokens

\* C22: none of the tokens markdownToHtml put in the place of a table is left in
\* what it returns, with marked there, throwing, or absent.
C22_NoTokenRemains ==
    renderPc = "done" =>
        \A k \in 1..Len(TablesOf(renderIn.markdown)) :
            ~Occurs(renderOut, tableToken(k - 1))

\* C23: what markdownToHtml returns holds no more tables than its input has
\* table fragments: text outside the fragments never gives way to a table.
C23_OnlyInsertedReplaced ==
    renderPc = "done" =>
        CountOf(renderOut, "<table>") <= Len(TablesOf(renderIn.markdown))

\* C24: a click on the close button leaves no panel, and showPreviewPanel
\* without a panel opens one on the tab render, whatever tab was active and
\* whatever was typed before the panel was closed.
C24_ReopensInitial ==
    /\ [][ClosePanel => ~previewPanel']_vars
    /\ [][\A md \in PreviewTexts, renderer \in Renderers :
             (~previewPanel /\ showPreviewPanel(md, renderer))
             => (activeTab' = "render" /\ activeTabButton' = "render"
                 /\ visiblePane' = "render")]_vars

\* C25: while the panel is there the edit pane shows previewState.markdown and
\* the panes render and links are those of that text; a click on a tab changes
\* neither the text nor what the three panes hold.
C25_PanesFollowText ==
    /\ [](previewPanel =>
            /\ textareaValue = previewMarkdown
            /\ \E renderer \in Renderers :
                  renderPane = markdownToHtml(previewMarkdown, renderer)
            /\ linksContainer = linksPane(previewMarkdown))
    /\ [][\A target \in Tabs :
             ClickTab(target)
             => UNCHANGED <<previewMarkdown, textareaValue, renderPane, linksContainer>>]_vars

\* the tab links shows the link of a text typed into the edit pane
C25_Witness ==
    /\ previewPanel
    /\ visiblePane = "links"
    /\ previewMarkdown = <<"a">> \o UrlA \o <<" ">>
    /\ textareaValue = previewMarkdown
    /\ linksContainer = <<UrlA>>

\* C26: after a mouse move that drags or resizes the preview panel, its left and
\* top are at least 12 and inside the window, and after one that resizes it its
\* width is at least 360 and its height at least 260.
C26_PanelKeptInWindow ==
    [][\A p \in PointerPlaces :
          MovePointer(p)
          => /\ Left(panelRect') >= PanelMargin
             /\ Top(panelRect') >= PanelMargin
             /\ Left(panelRect') < innerSize[1]
             /\ Top(panelRect') < innerSize[2]
             /\ isPreviewResizing => /\ Width(panelRect') >= MinPanelWidth
                                     /\ Height(panelRect') >= MinPanelHeight]_vars

\* a panel created smaller than the floor, resized by its top left handle in a
\* window smaller than the panel
C26_Witness ==
    /\ isPreviewResizing
    /\ previewResizeStart.handle = "tl"
    /\ previewResizeStart.width < MinPanelWidth
    /\ innerSize = <<13, 13>>
    /\ panelRect = <<PanelMargin, PanelMargin, MinPanelWidth, MinPanelHeight>>

\* the requests the listener answers
Answered(k) ==
    \/ requests[k].type = "mdcp-capture-visible"
    \/ requests[k].type = "mdcp-fetch-image" /\ requests[k].url

\* C27: for a capture request and for a fetch request with a url, sendResponse
\* is called at most once while the request is handled and exactly once when it
\* is done, with a data URI or an error string, and the capture or the fetch is
\* issued at most once.
C27_OneResponse ==
    \A k \in 1..Len(requests) :
        Answered(k) =>
            /\ Len(requests[k].responses) <= 1
            /\ requests[k].pc = "done" => Len(requests[k].responses) = 1
            /\ \A r \in 1..Len(requests[k].responses) :
                  requests[k].responses[r] \in {DataUri, ErrorString}
            /\ requests[k].issued <= 1

\* C28: while an area is drawn, the pointer coming over an element changes
\* neither the hovered element nor the elements that carry the outline.
C28_NoHoverWhileDrawing ==
    [][\A t \in Targets :
          (isDrawingArea /\ MouseOver(t)) => UNCHANGED <<currentElement, outlined>>]_vars

\* the elements of found that are not in selected, in the order of found
NotYetSelected(selected, found) == SelectSeq(found, LAMBDA e : ~InSeq(selected, e))

\* C29: no element is twice in selectedElements, and the elements that carry
\* mdcp-multi-selected are those of selectedElements; the release that ends an
\* area drag appends the resolved elements that were not selected, in the order
\* resolved, to selectedElements as it was.
C29_SelectionIsASet ==
    /\ [](\A i, j \in 1..Len(selectedElements) :
             selectedElements[i] = selectedElements[j] => i = j)
    /\ [](multiSelected = ElementsOf(selectedElements))
    /\ [][DragEnds
          => selectedElements' =
                 selectedElements
                     \o NotYetSelected(selectedElements,
                                       getElementsInArea(Document, areaStartPos, areaEndPos))
         ]_vars

\* an area drawn over an element that was selected by a click and one that was
\* not: the second is appended after the first
C29_Witness ==
    /\ justFinishedAreaSelection
    /\ selectedElements = <<3, 1>>
    /\ multiSelected = {1, 3}
    /\ toast = CountToast("selected", 2)

\* Math.ceil(a / b) for a > 0
CeilDiv(a, b) == (a + b - 1) \div b

\* the chunks of the area, left to right in a row and the rows top to bottom
RowMajor(box) ==
    LET cols == CeilDiv(box.width, Width(ViewportRect))
        rows == CeilDiv(box.height, Height(ViewportRect))
    IN  [k \in 1..(rows * cols) |->
            <<box.x + ((k - 1) % cols) * Width(ViewportRect),
              box.y + ((k - 1) \div cols) * Height(ViewportRect)>>]

\* the chunks are requested in row-major order, each once, one at a time
RequestedInOrder ==
    capture # <<>> =>
        /\ Len(capture.requested) <= Len(RowMajor(capture.box))
        /\ capture.requested = SubSeq(RowMajor(capture.box), 1, Len(capture.requested))
        /\ capture.outstanding <= 1
        /\ capture.pc \in {"scroll", "settle", "load", "encode", "done"}
               => capture.outstanding = 0

FirstOccurrence(s, u) ==
    IF Occurs(s, u)
    THEN CHOOSE i \in 1..Len(s) :
             /\ StartsWithAt(s, i, u)
             /\ \A j \in 1..(i - 1) : ~StartsWithAt(s, j, u)
    ELSE Len(s) + 1

PairwiseDistinct(q) == \A k, l \in 1..Len(q) : q[k] = q[l] => k = l

\* C31 as claimed: the URLs returned are pairwise distinct and stand in the
\* order in which they first occur in the text.
C31_Original ==
    linkPc = "done" =>
        /\ PairwiseDistinct(links)
        /\ \A k, l \in 1..Len(links) :
              k < l => FirstOccurrence(markdown, links[k]) <= FirstOccurrence(markdown, links[l])

\* the place of u in q, Len(q) + 1 when it is not there
PlaceIn(q, u) ==
    IF InSeq(q, u) THEN CHOOSE i \in 1..Len(q) : q[i] = u /\ \A j \in 1..(i - 1) : q[j] # u
    ELSE Len(q) + 1

\* where a URL was first found: the pass (link targets, autolinks, bare URLs)
\* and the place among the matches of that pass
FirstFound(s, u) ==
    IF InSeq(execLink(s, 1), u) THEN <<1, PlaceIn(execLink(s, 1), u)>>
    ELSE IF InSeq(execAutoLink(s, 1), u) THEN <<2, PlaceIn(execAutoLink(s, 1), u)>>
    ELSE <<3, PlaceIn(execBareUrl(s, 1), u)>>

\* C31 as amended: the URLs returned are pairwise distinct, they are the
\* matches of the three expressions, and they stand in the order link targets,
\* then autolinks, then bare URLs, each in the order of the text, a URL at the
\* place where it was first found.
C31_DistinctByPass ==
    linkPc = "done" =>
        /\ PairwiseDistinct(links)
        /\ ElementsOf(links)
               = ElementsOf(execLink(markdown, 1)) \cup ElementsOf(execAutoLink(markdown, 1))
                     \cup ElementsOf(execBareUrl(markdown, 1))
        /\ \A k, l \in 1..Len(links) :
              k < l =>
                  LET a == FirstFound(markdown, links[k])
                      b == FirstFound(markdown, links[l])
                  IN  a[1] < b[1] \/ (a[1] = b[1] /\ a[2] < b[2])

\* a bare URL before a link: the link's target is returned first
C31_Witness ==
    /\ linkPc = "done"
    /\ markdown = UrlA \o <<" ">> \o LinkTo(UrlSlash)
    /\ links = <<UrlSlash, UrlA>>

\* the lines of a text
RECURSIVE LinesOf(_, _, _)
LinesOf(md, i, line) ==
    IF i > Len(md) THEN <<line>>
    ELSE IF md[i] = NL THEN <<line>> \o LinesOf(md, i + 1, <<>>)
    ELSE LinesOf(md, i + 1, Append(line, md[i]))

\* how many cells a line of a pipe table has: one between two pipes
CellsOfLine(line) == Cardinality({ k \in 1..Len(line) : line[k] = "|" }) - 1

\* the elements HTML calls block-level
BlockLevelElements ==
    {"address", "article", "aside", "blockquote", "details", "dialog", "dd", "div", "dl",
     "dt", "fieldset", "figcaption", "figure", "footer", "form", "h1", "h2", "h3", "h4",
     "h5", "h6", "header", "hgroup", "hr", "li", "main", "nav", "ol", "p", "pre",
     "section", "table", "ul"}

\* simple as the claim defines it
SimpleAsClaimed(table) ==
    \A r \in 1..Len(table.rows) : \A k \in 1..Len(table.rows[r]) :
        ~table.rows[r][k].span /\ table.rows[r][k].child \notin BlockLevelElements

\* a pipe table for the rows: header, separator, a line for every further row,
\* each of colCount cells
IsPipeTableOf(lines, rows) ==
    LET colCount == IF Len(rows[1]) # 0 THEN Len(rows[1])
                    ELSE MaxOf({ Len(rows[r]) : r \in 1..Len(rows) })
    IN  /\ Len(lines) = Len(rows) + 1
        /\ \A n \in 1..Len(lines) : CellsOfLine(lines[n]) = colCount
        /\ \A k \in 1..Len(lines[2]) : lines[2][k] \in {"|", "---"}
        /\ \A r \in 1..Len(rows) :
               LET line == lines[IF r = 1 THEN 1 ELSE r + 1]
                   texts == SelectSeq(line, LAMBDA c : c # "|")
               IN  /\ Len(texts) = Min(Len(rows[r]), colCount)
                   /\ \A k \in 1..Len(texts) : texts[k] = rows[r][k].text

\* C32: a table is emitted as a pipe table exactly if it is simple (no table
\* inside, no rowspan or colspan, no block-level element in a cell) and has a
\* row: a header line, a separator line and a line for every further row, each
\* of colCount cells; any other table is emitted as its markup between blank
\* lines.
C32_PipeTableIffSimple ==
    (convPc = "done" /\ convIn.node.tag = "table" /\ ~convOut.null /\ convIn.site = "other")
        => LET table == [convIn.node EXCEPT !.classes = classListRemove(@, Outline)]
               md == convOut.md
           IN  /\ Len(md) >= 4
               /\ SubSeq(md, 1, 2) = <<NL, NL>>
               /\ SubSeq(md, Len(md) - 1, Len(md)) = <<NL, NL>>
               /\ LET inner == SubSeq(md, 3, Len(md) - 2)
                  IN  IF SimpleAsClaimed(table) /\ table.rows # <<>>
                      THEN IsPipeTableOf(LinesOf(inner, 1, <<>>), table.rows)
                      ELSE inner = outerHTML(table)

\* C35: in selection mode, while Alt is not held and no area is being drawn,
\* area-selection mode is off (so that handleMouseOver highlights), whatever
\* the order of the key and pointer events was.
C35_AreaModeFollowsAlt ==
    (isSelectionMode /\ listening /\ ~altKey /\ ~isDrawingArea) => ~isAreaSelectionMode

(***************************************************************************)
(* SpecSessions: the selection controller over one session more than       *)
(* MaxSessions, with the preview panel among the places of the pointer.    *)
(* The user starts a session with a click on the entry button, hovers and  *)
(* clicks, commits with Enter in the first session only (a commit pending  *)
(* later is the first session's) and ends a session with Escape.           *)
(***************************************************************************)
\* the preview panel in Document
PanelEl == NumPage + 2

InitSessions ==
    /\ sessionLimit = MaxSessions + 1
    /\ IdleRender
    /\ IdlePanel
    /\ IdleGeom
    /\ IdleBackground
    /\ IdleCapture
    /\ IdleInject
    /\ IdleNorm
    /\ IdleLinks
    /\ IdleArea
    /\ IdleImage
    /\ IdleConv
    /\ InitCtl

NextSessions ==
    \/ \E t \in {1, ButtonEl} : MouseOver(t)
    \/ previewPanel /\ MouseOver(PanelEl)
    \/ PressButton
    \/ ~isSelectionMode /\ ReleaseButton(FALSE, "text")
    \/ PlainClick
    \/ KeyDownEscape
    \/ sessions = 1 /\ \E outcomes \in ConversionOutcomes : KeyDownEnter(outcomes)
    \/ \E i \in 1..MaxIdlePending, ok \in BOOLEAN : SettleText(i, ok)

SpecSessions == InitSessions /\ [][NextSessions]_vars

\* the nodes of the extension's own user interface
OwnNodes == { e \in 1..Len(Document) : Document[e].kind # "page" }

\* C33: no node of the extension's own user interface (entry button, overlay,
\* selection box, toast, preview panel) is in the selection set.
C33_NoOwnNodeSelected ==
    \A k \in 1..Len(selectedElements) : selectedElements[k] \notin OwnNodes

\* the clipboard write of a commit ends
EarlierCommitSettles ==
    /\ sessions > 1
    /\ \E i \in 1..Len(pending), ok \in BOOLEAN : CommitSettles(i, ok)

\* C34: when the clipboard write of a commit of an earlier session ends, the
\* session the user has started since goes on and keeps its selection set.
C34_LaterSessionKept ==
    [][(EarlierCommitSettles /\ isSelectionMode)
          => (isSelectionMode' /\ selectedElements' = selectedElements)]_vars

\* C37: the result of getElementsInArea never holds an element together with
\* one of its descendants.
C37_NoElementWithDescendant ==
    areaPc = "done" =>
        \A a \in Resolved, b \in Resolved : ~IsAncestor(dom, a, b)

\* the text inside fenced code blocks: every second segment between fences
FencedSegments(s) ==
    LET segments == Split(s, Fence)
    IN  [k \in 1..(Len(segments) \div 2) |-> segments[2 * k]]

\* C38: what markdownToHtml hands to the renderer has, inside fenced code
\* blocks, the text that the Markdown has there.
C38_FencedTextKept ==
    (renderPc = "done" /\ renderIn.renderer = "present")
        => FencedSegments(normalizedMarkdown(renderIn.markdown))
               = FencedSegments(renderIn.markdown)

\* C36: however captureArea ends, no fixed or sticky element is left hidden
\* and tagged, and the window is scrolled to where it was before the call.
C36_StateRestored ==
    Running("done") => (capture.hidden = {} /\ capture.scroll = capture.originalScroll)

(***************************************************************************)
(* SpecInject: the listener of chrome.action.onClicked in the background   *)
(* script (src/unnamed/part_000 4-46, src/unnamed/part_001 4-40), a step   *)
(* for each await. A call of the listener is a record: the tab's URL, the  *)
(* files whose injection was requested and those injected, in order, and   *)
(* where the call stands.                                                  *)
(***************************************************************************)
MaxClicks == 2

Last(q) == q[Len(q)]

Scripts == {"part_000", "part_001"}

\* tab.url: a page, a page of the browser or of an extension, or no URL
TabUrls == {"https://", "chrome://", "chrome-extension://", "undefined"}

\* the files the script injects, in the order of its awaits
files ==
    IF script = "part_000"
    THEN <<"lib/turndown.js", "lib/turndown-plugin-gfm.js", "lib/marked.min.js",
           "styles.css", "content.js">>
    ELSE <<"lib/turndown.js", "lib/turndown-plugin-gfm.js", "styles.css", "content.js">>

\* the listener up to its first await
onClicked(url) ==
    LET call == [url |-> url, requested |-> <<>>, injected |-> <<>>, pc |-> "returned"]
    IN  IF url = "undefined" THEN [call EXCEPT !.pc = "caught"]
        ELSE IF url \in {"chrome://", "chrome-extension://"} THEN call
        ELSE [call EXCEPT !.requested = <<files[1]>>, !.pc = "awaiting"]

\* an await ends and the next injection is requested even after a rejection
afterAwait_goesOn(call, ok) ==
    LET done == IF ok THEN [call EXCEPT !.injected = Append(@, Last(call.requested))]
                ELSE call
    IN  IF Len(call.requested) < Len(files)
        THEN [done EXCEPT !.requested = Append(@, files[Len(call.requested) + 1])]
        ELSE [done EXCEPT !.pc = "returned"]

\* an await ends: the next injection is requested, the listener returns after
\* the last one, and a rejection goes to the catch
afterAwait(call, ok) ==
    IF ~ok THEN [call EXCEPT !.pc = "caught"]
    ELSE LET done == [call EXCEPT !.injected = Append(@, Last(call.requested))]
         IN  IF Len(call.requested) < Len(files)
             THEN [done EXCEPT !.requested = Append(@, files[Len(call.requested) + 1])]
             ELSE [done EXCEPT !.pc = "returned"]

\* the user clicks the extension's icon on a tab
Click(url) ==
    /\ Len(clicks) < MaxClicks
    /\ clicks' = Append(clicks, onClicked(url))
    /\ UNCHANGED <<script, exceptInject, ctlVars>>

\* the injection that call k awaits is done (ok) or rejected
InjectionSettles(k, ok) ==
    /\ k \in 1..Len(clicks)
    /\ clicks[k].pc = "awaiting"
    /\ clicks' = [clicks EXCEPT ![k] = afterAwait(clicks[k], ok)]
    /\ UNCHANGED <<script, exceptInject, ctlVars>>

InitInject ==
    /\ script \in Scripts
    /\ clicks = <<>>
    /\ IdleLimit
    /\ IdleRender
    /\ IdlePanel
    /\ IdleGeom
    /\ IdleBackground
    /\ IdleCapture
    /\ IdleNorm
    /\ IdleLinks
    /\ IdleArea
    /\ IdleImage
    /\ IdleConv
    /\ InitCtl

NextInject ==
    \/ \E url \in TabUrls : Click(url)
    \/ \E k \in 1..MaxClicks, ok \in BOOLEAN : InjectionSettles(k, ok)

SpecInject == InitInject /\ [][NextInject]_vars

IsPrefix(p, q) == Len(p) <= Len(q) /\ SubSeq(q, 1, Len(p)) = p

\* the converter, its plugin, the renderer, the style sheet, the content script
ClaimedOrder ==
    <<"lib/turndown.js", "lib/turndown-plugin-gfm.js", "lib/marked.min.js", "styles.css",
      "content.js">>

\* each injection is awaited before the next is requested, the content script
\* is requested only after every earlier injection was done, and nothing is
\* requested for a tab of the browser or of an extension
InjectedInTurn(call, order) ==
    /\ IsPrefix(call.requested, order)
    /\ IsPrefix(call.injected, call.requested)
    /\ Len(call.requested) <= Len(call.injected) + 1
    /\ call.pc = "returned" => call.requested = call.injected
    /\ call.url \in {"chrome://", "chrome-extension://"} => call.requested = <<>>
    /\ (call.pc = "returned" /\ call.url = "https://") => call.injected = order

\* C39 as claimed: on a click the converter, its plugin, the renderer, the
\* style sheet and last the content script are injected in this order, each
\* awaited before the next, the content script only after all the others were
\* injected, and nothing into chrome:// and chrome-extension:// tabs.
C39_Original ==
    \A k \in 1..Len(clicks) : InjectedInTurn(clicks[k], ClaimedOrder)

\* C39 as amended: the same, the renderer being injected by the background
\* script of part_000 only; that of part_001 injects the other four files.
C39_InjectedInOrder ==
    \A k \in 1..Len(clicks) :
        InjectedInTurn(clicks[k],
            IF script = "part_000" THEN ClaimedOrder
            ELSE SelectSeq(ClaimedOrder, LAMBDA f : f # "lib/marked.min.js"))

\* a click whose injections were all done, and one that ended with a rejected
\* injection before the content script was requested
C39_Witness ==
    /\ Len(clicks) = 2
    /\ clicks[1].pc = "returned" /\ clicks[1].injected = files
    /\ clicks[2].pc = "caught" /\ Len(clicks[2].requested) = 2

====
